---------------------------- MODULE Spec2Model ----------------------------
(***************************************************************************)
(* Predii Spec-RAG: a model of the pipeline orchestrator (the two App      *)
(* components, one per backend) and of DocumentProcessor's chunker.        *)
(*                                                                         *)
(*   Spec         the application: user events and the asynchronous        *)
(*                stages of runPipeline, for the Groq application          *)
(*                (src/unnamed/part_001) and the OpenAI application        *)
(*                (src/unnamed/part_002).                                  *)
(*   SpecChunker  DocumentProcessor.generateSemanticChunks applied to      *)
(*                bounded lists of pages and bounded budgets.              *)
(*   SpecRows     DocumentProcessor.extractTextWithStructure on bounded    *)
(*                documents, awaited by the first run of an application.   *)
(*   SpecRetr     retrieveRelevantChunks on bounded chunk lists.           *)
(*   SpecParse    extractSpecs on bounded model responses.                 *)
(*   SpecEmb      getBatchEmbeddings on bounded lists of texts.            *)
(*   SpecGet      OpenAIService.getEmbedding and its batch fallback.       *)
(*   SpecLive     the application when every awaited call settles.         *)
(***************************************************************************)
EXTENDS Integers, Sequences, FiniteSets, TLC

VARIABLES
    app,              \* which App component is mounted: "groq" | "openai"
    servicesOk,       \* docProcessor and the LLM service were constructed
    file,             \* useState<File|null>: TRUE when a file is selected
    query,            \* useState(''): the query text
    isProcessing,     \* useState(false)
    steps,            \* useState(INITIAL_STEPS): step id -> [status, description]
    results,          \* useState<VehicleSpec[]>([])
    retrievedChunks,  \* useState<ScoredChunk[]>([])  (Groq application only)
    error,            \* useState<string|null>(null)
    runs,             \* one record per call of runPipeline that got past its guards
    pages,            \* chunker input: the list of page contents (page num = index)
    maxChunks,        \* chunker input: the budget
    pageIdx,          \* chunker: number of pages the forEach has processed
    activeSection,    \* chunker: let activeSection
    allChunks,        \* chunker: const allChunks
    selected,         \* chunker: the returned list
    cpc,              \* chunker: "pages" | "done" | "off"
    numPages,         \* layout: pdf.numPages of the document being read
    pageNo,           \* layout: the loop variable i (pages read so far)
    items,            \* layout: textContent.items of the last page read, as they arrived
    lineMap,          \* layout: the Map of the last page read, in insertion order
    emitted,          \* layout: the rows behind the lines of the last page's text
    outPages,         \* layout: const pages, the result under construction
    xerr,             \* layout: the message of the error thrown, or NULL
    xcause,           \* layout: the message of the rejection behind the failure, or NULL
    xret,             \* layout: the pages the call returned, in a list (empty: no return)
    xpc,              \* layout: "open" | "page" | "done" | "failed" | "off"
    svc,              \* which service class is called: "groq" | "openai"
    queryEmbedding,   \* retrieval: const queryEmbedding
    chunkList,        \* retrieval: the chunks argument
    kArg,             \* retrieval: the k argument
    scored,           \* retrieval: const scored
    context,          \* retrieval: const context
    kpc,              \* retrieval: "call" | "done" | "off"
    pcalls,           \* extraction: calls of chat.completions.create so far
    pcause,           \* extraction: the message of the API's rejection, or NULL
    raw,              \* extraction: the content of the model's response, as tokens
    specsOut,         \* extraction: the list extractSpecs returned
    perr,             \* extraction: the message of the error thrown, or NULL
    ppc,              \* extraction: "start" | "await" | "done" | "failed" | "off"
    texts,            \* embedding: the texts argument of getBatchEmbeddings
    data,             \* embedding: response.data as the remote API listed it
    vectors,          \* embedding: the list getBatchEmbeddings returned
    eerr,             \* embedding: the message of the error thrown, or NULL
    epc,              \* embedding: "call" | "done" | "failed" | "off"
    requests,         \* embedding: the input of each embeddings.create call so far
    gtext,            \* getEmbedding: the text argument
    gcause,           \* getEmbedding: the message of the error caught, or NULL
    gvec,             \* getEmbedding: the vector returned, in a list (empty: none)
    gerr,             \* getEmbedding: the message of the error thrown, or NULL
    gpc               \* getEmbedding: "single" | "batch" | "done" | "failed" | "off"

appVars == <<app, servicesOk, file, query, isProcessing, steps, results,
             retrievedChunks, error, runs>>
chunkVars == <<pages, maxChunks, pageIdx, activeSection, allChunks, selected, cpc>>
rowVars == <<numPages, pageNo, items, lineMap, emitted, outPages, xerr, xcause,
             xret, xpc>>
retrVars == <<queryEmbedding, chunkList, kArg, scored, context, kpc>>
parseVars == <<pcalls, pcause, raw, specsOut, perr, ppc>>
embVars == <<texts, data, vectors, eerr, epc, requests>>
getVars == <<gtext, gcause, gvec, gerr, gpc>>
svcVars == <<svc, rowVars, retrVars, parseVars, embVars, getVars>>
\* what the actions of one service leave alone
otherThanRows == <<appVars, chunkVars, svc, retrVars, parseVars, embVars, getVars>>
otherThanRetr == <<appVars, chunkVars, rowVars, parseVars, embVars, getVars>>
otherThanParse == <<appVars, chunkVars, rowVars, retrVars, embVars, getVars>>
otherThanEmb == <<appVars, chunkVars, rowVars, retrVars, parseVars, getVars>>
otherThanGet == <<appVars, chunkVars, rowVars, retrVars, parseVars>>
vars == <<app, servicesOk, file, query, isProcessing, steps, results,
          retrievedChunks, error, runs,
          pages, maxChunks, pageIdx, activeSection, allChunks, selected, cpc,
          svcVars>>

-----------------------------------------------------------------------------
(* Bounds of the model.                                                    *)

\* calls of runPipeline that get past the guards, per behaviour
MaxRuns == 2

-----------------------------------------------------------------------------
(* Generic helpers.                                                        *)

Min(a, b) == IF a < b THEN a ELSE b
Max(a, b) == IF a > b THEN a ELSE b

\* JavaScript null for the error message state.
NULL == "<null>"

-----------------------------------------------------------------------------
(* The application state (App.tsx of each backend).                        *)

Apps == {"groq", "openai"}

\* The ids of INITIAL_STEPS, in array order (pipeline order).
StepIds == <<"extract", "embed", "retrieve", "parse">>

\* A step description is modelled by the template of its text, without the
\* numbers printed in it ("Parsed ${pages.length} pages ..." is "Parsed").

INITIAL_STEPS ==
    [id \in {StepIds[k] : k \in 1..4} |->
        [status |-> "idle", description |-> "initial"]]

\* description ?? s.description : the marker of an omitted argument
NoDesc == "undefined"

\* updateStep: prev.map(s => s.id === id ? {...s, status, description: desc ?? s.description} : s)
updateStep(st, id, status, desc) ==
    [st EXCEPT ![id] = [status |-> status,
                        description |-> IF desc = NoDesc THEN @.description ELSE desc]]

\* The query texts a user can type: empty, blank, and a real query.
Queries == {"", " ", "torque"}

\* query.trim()
Trim(q) == IF q = " " THEN "" ELSE q

\* JavaScript truthiness of a string
Truthy(s) == s # ""


-----------------------------------------------------------------------------
(* What the stages of a run can throw.                                     *)

\* Messages of the errors the external collaborators (PDF.js, the HTTP       
\* clients) raise.  The empty message is the message of `new Error()`.
PdfCauses == {"", "Invalid PDF structure"}
ApiCauses == {"401 Unauthorized", "429 Too Many Requests", "Connection error."}

\* msg.includes(sub), tabulated for the vocabulary of ApiCauses.
Includes(msg, sub) ==
    <<msg, sub>> \in {<<"401 Unauthorized", "401">>,
                      <<"429 Too Many Requests", "429">>}

\* A variant of DocumentOpenError that drops the message of the cause.
DocumentOpenErrorBare(cause) == "PDF.js failed to open the file."

\* extractTextWithStructure: a failure of getDocument is wrapped ...
DocumentOpenError(cause) ==
    "PDF.js failed to open the file: " \o cause
        \o ". Make sure the file is a valid, non-encrypted PDF."

\* ... and a failure of getPage / getTextContent propagates as it is.
ExtractTextErrors ==
    {DocumentOpenError(c) : c \in PdfCauses} \cup PdfCauses

\* OpenAIService.getBatchEmbeddings, catch block
OpenAIEmbeddingError(msg) ==
    IF Includes(msg, "API_KEY") \/ Includes(msg, "401") \/ Includes(msg, "403")
    THEN "Invalid or missing OpenAI API key. Check your .env.local file."
    ELSE IF Includes(msg, "429") \/ Includes(msg, "quota") \/ Includes(msg, "rate_limit")
    THEN "OpenAI API rate limit exceeded. Wait a moment and retry."
    ELSE "Embedding failed: " \o msg

\* GroqService.extractSpecs, outer catch block
GroqExtractionError(msg) ==
    IF Includes(msg, "401") \/ Includes(msg, "invalid_api_key")
    THEN "Invalid Groq API key. Check GROQ_API_KEY in your .env.local file."
    ELSE IF Includes(msg, "429") \/ Includes(msg, "rate_limit")
    THEN "Groq rate limit hit. Wait 30 seconds and try again."
    ELSE "LLM extraction failed: " \o msg

\* OpenAIService.extractSpecs, outer catch block
OpenAIExtractionError(msg) == "LLM extraction failed: " \o msg

\* The messages of the errors stage `stage` of application `a` can throw.
\* The Groq embeddings and retrieval are local computations: they throw nothing.
StageErrors(a, stage) ==
    CASE stage = "extract" -> ExtractTextErrors
      [] stage = "embed" ->
            IF a = "openai" THEN {OpenAIEmbeddingError(c) : c \in ApiCauses} ELSE {}
      [] stage = "retrieve" ->
            IF a = "openai" THEN {OpenAIEmbeddingError(c) : c \in ApiCauses} ELSE {}
      [] stage = "parse" ->
            IF a = "openai" THEN {OpenAIExtractionError(c) : c \in ApiCauses}
            ELSE {GroqExtractionError(c) : c \in ApiCauses}
      [] OTHER -> {}

\* setError(err.message || 'Pipeline failed.')
FallbackMessage(a) ==
    IF a = "groq" THEN "Pipeline failed." ELSE "Pipeline execution failed."

\* A variant that reports every failure with the fixed text.
SurfacedGeneric(a, msg) == FallbackMessage(a)

\* A variant that sets no error text at all.
SurfacedNothing(a, msg) == NULL

SurfacedMessage(a, msg) == IF Truthy(msg) THEN msg ELSE FallbackMessage(a)

-----------------------------------------------------------------------------
(* runPipeline.                                                            *)

\* const BATCH = 20
BATCH == 20

\* retrieveRelevantChunks(query, chunks, k = 6)
TopK == 6

\* The numbers of chunks generateSemanticChunks may hand to a run: none, one
\* batch or less, and more than one batch.
ChunkCounts == {0, 1, BATCH, BATCH + 1}

\* The record lists extractSpecs may return.
SpecLists == {<<>>, <<"Cam Bolt Nut 350 Nm">>}

Stages == {"extract", "embed", "retrieve", "parse"}

\* A run past its guards: the stage it awaits (or "done" | "failed"), the number
\* of its chunks, the batch index i, for each chunk the text whose embedding
\* its embedding field holds (0: undefined) and the number of assignments to
\* the field, and after a failure the stage that threw and the message of the
\* error caught.  The locals of a call that returned (n, i, the chunks) are
\* dead and read as 0 and <<>>.
NewRun == [pc |-> "extract", n |-> 0, i |-> 0, emb |-> <<>>, writes |-> <<>>,
           at |-> "none", err |-> NULL]

\* a mutant of BatchSlice: a batch one chunk short
BatchSliceShort(n, i) == [k \in 1..(Min(i + BATCH - 1, n) - i) |-> i + k]

\* chunks.slice(i, i + BATCH), as the positions (from 1) of its chunks
BatchSlice(n, i) == [k \in 1..(Min(i + BATCH, n) - i) |-> i + k]

\* groq/openai.getBatchEmbeddings(batch.map(c => c.text)): one embedding per
\* text, in the order of the texts; an embedding is named by the chunk whose
\* text it was computed from
BatchEmbeddingsOf(batch) == [k \in 1..Len(batch) |-> batch[k]]

\* embs.forEach((e, idx) => { batch[idx].embedding = e; })
AssignEmbeddings(emb, batch, embs) ==
    [j \in 1..Len(emb) |->
        IF \E idx \in 1..Len(embs) : batch[idx] = j
        THEN embs[CHOOSE idx \in 1..Len(embs) : batch[idx] = j]
        ELSE emb[j]]

\* the assignments the forEach adds to each chunk's count
CountAssignments(writes, batch, embs) ==
    [j \in 1..Len(writes) |->
        writes[j] + Cardinality({idx \in 1..Len(embs) : batch[idx] = j})]

\* catch (err): the step marking of each application.
\*   Groq:   setSteps(prev => prev.map(s => s.status === 'loading' ? {...s, status: 'error'} : s))
\*   OpenAI: updateStep('extract', 'error')
MarkFailed(a, st) ==
    IF a = "groq"
    THEN [id \in DOMAIN st |->
            IF st[id].status = "loading" THEN [st[id] EXCEPT !.status = "error"]
            ELSE st[id]]
    ELSE updateStep(st, "extract", "error", NoDesc)

\* The state changes of runPipeline from its guards to its first await.
StartRun ==
    /\ Len(runs) < MaxRuns
    /\ isProcessing' = TRUE
    /\ error' = NULL
    /\ results' = <<>>
    /\ retrievedChunks' = IF app = "groq" THEN 0 ELSE retrievedChunks
    /\ steps' = updateStep(IF app = "groq" THEN INITIAL_STEPS ELSE steps,
                           "extract", "loading", NoDesc)
    /\ runs' = Append(runs, NewRun)

\* A variant of runPipeline without its guards.
runPipelineUnguarded == StartRun

\* A call of runPipeline: the two guards, then the run.
runPipeline ==
    IF app = "groq" /\ ~servicesOk
    THEN /\ error' = "Services not initialized. Check console."
         /\ UNCHANGED <<isProcessing, steps, results, retrievedChunks, runs>>
    ELSE IF ~file \/ ~Truthy(Trim(query))
    THEN /\ error' = IF app = "groq" THEN "Please upload a PDF and enter a query."
                     ELSE error
         /\ UNCHANGED <<isProcessing, steps, results, retrievedChunks, runs>>
    ELSE StartRun

\* The Run button: onClick={runPipeline}, disabled={...}
RunButtonDisabled ==
    IF app = "groq" THEN ~file \/ ~Truthy(Trim(query)) \/ isProcessing
    ELSE ~file \/ ~Truthy(query) \/ isProcessing

ClickRun ==
    /\ ~RunButtonDisabled
    /\ runPipeline
    /\ UNCHANGED <<app, servicesOk, file, query>>
    /\ UNCHANGED <<chunkVars, svcVars>>

\* The query field: onKeyDown
\*   Groq:   e.key === 'Enter' && !isProcessing && file && query && runPipeline()
\*   OpenAI: e.key === 'Enter' && runPipeline()
EnterKeyGuard ==
    IF app = "groq" THEN ~isProcessing /\ file /\ Truthy(query) ELSE TRUE

PressEnter ==
    /\ EnterKeyGuard
    /\ runPipeline
    /\ UNCHANGED <<app, servicesOk, file, query>>
    /\ UNCHANGED <<chunkVars, svcVars>>

\* onChange={e => setFile(e.target.files?.[0] || null)}
SetFile ==
    /\ \E f \in BOOLEAN : f # file /\ file' = f
    /\ UNCHANGED <<app, servicesOk, query, isProcessing, steps, results,
                   retrievedChunks, error, runs>>
    /\ UNCHANGED <<chunkVars, svcVars>>

\* onChange={e => setQuery(e.target.value)} and the preset buttons
SetQuery ==
    /\ \E q \in Queries : q # query /\ query' = q
    /\ UNCHANGED <<app, servicesOk, file, isProcessing, steps, results,
                   retrievedChunks, error, runs>>
    /\ UNCHANGED <<chunkVars, svcVars>>

\* After the embedding loop: embed completed, retrieval started.
EmbedCompleted(st, n) ==
    updateStep(updateStep(st, "embed", "completed", "vectors built"),
               "retrieve", "loading", NoDesc)

\* await extractTextWithStructure(file) returns; generateSemanticChunks; the
\* embedding loop up to its first await (or past it when there are no chunks).
ExtractDone(r) ==
    /\ runs[r].pc = "extract"
    /\ \E n \in ChunkCounts :
        LET st1 == updateStep(steps, "extract", "completed", "Parsed")
            st2 == updateStep(st1, "embed", "loading", NoDesc)
        IN  IF 0 < n
            THEN /\ steps' = updateStep(st2, "embed", "loading",
                                        "Vectorizing")
                 /\ runs' = [runs EXCEPT ![r] = [@ EXCEPT !.pc = "embed", !.n = n, !.i = 0,
                                                          !.emb = [j \in 1..n |-> 0],
                                                          !.writes = [j \in 1..n |-> 0]]]
            ELSE /\ steps' = EmbedCompleted(st2, n)
                 /\ runs' = [runs EXCEPT ![r] = [@ EXCEPT !.pc = "retrieve", !.n = n]]
    /\ UNCHANGED <<app, servicesOk, file, query, isProcessing, results,
                   retrievedChunks, error>>
    /\ UNCHANGED <<chunkVars, svcVars>>

\* await getBatchEmbeddings(batch) returns: the batch gets its embeddings, i += BATCH
EmbedBatchDone(r) ==
    /\ runs[r].pc = "embed"
    /\ LET i2 == runs[r].i + BATCH
           n  == runs[r].n
           batch == BatchSlice(n, runs[r].i)
           embs  == BatchEmbeddingsOf(batch)
           emb2  == AssignEmbeddings(runs[r].emb, batch, embs)
           w2    == CountAssignments(runs[r].writes, batch, embs)
       IN  IF i2 < n
           THEN /\ steps' = updateStep(steps, "embed", "loading",
                                       "Vectorizing")
                /\ runs' = [runs EXCEPT ![r] = [@ EXCEPT !.i = i2, !.emb = emb2,
                                                         !.writes = w2]]
           ELSE /\ steps' = EmbedCompleted(steps, n)
                /\ runs' = [runs EXCEPT ![r] = [@ EXCEPT !.pc = "retrieve", !.i = i2,
                                                         !.emb = emb2, !.writes = w2]]
    /\ UNCHANGED <<app, servicesOk, file, query, isProcessing, results,
                   retrievedChunks, error>>
    /\ UNCHANGED <<chunkVars, svcVars>>

\* await retrieveRelevantChunks(query, chunks) returns
RetrieveDone(r) ==
    /\ runs[r].pc = "retrieve"
    /\ retrievedChunks' = IF app = "groq" THEN Min(TopK, runs[r].n) ELSE retrievedChunks
    /\ steps' = updateStep(updateStep(steps, "retrieve", "completed",
                                      "Top"),
                           "parse", "loading", NoDesc)
    /\ runs' = [runs EXCEPT ![r] = [@ EXCEPT !.pc = "parse"]]
    /\ UNCHANGED <<app, servicesOk, file, query, isProcessing, results, error>>
    /\ UNCHANGED <<chunkVars, svcVars>>

\* await extractSpecs(query, context) returns; finally
ParseDone(r) ==
    /\ runs[r].pc = "parse"
    /\ \E specs \in SpecLists :
        /\ results' = specs
        /\ steps' = updateStep(steps, "parse", "completed", "Extracted")
    /\ isProcessing' = FALSE
    /\ runs' = [runs EXCEPT ![r] = [@ EXCEPT !.pc = "done", !.n = 0, !.i = 0,
                                             !.emb = <<>>, !.writes = <<>>]]
    /\ UNCHANGED <<app, servicesOk, file, query, retrievedChunks, error>>
    /\ UNCHANGED <<chunkVars, svcVars>>

\* The awaited stage rejects: catch (err), finally
StageFails(r) ==
    /\ runs[r].pc \in Stages
    /\ \E msg \in StageErrors(app, runs[r].pc) :
        /\ error' = SurfacedMessage(app, msg)
        /\ runs' = [runs EXCEPT ![r] = [@ EXCEPT !.pc = "failed", !.at = runs[r].pc,
                                                 !.err = msg, !.n = 0, !.i = 0,
                                                 !.emb = <<>>, !.writes = <<>>]]
    /\ steps' = MarkFailed(app, steps)
    /\ isProcessing' = FALSE
    /\ UNCHANGED <<app, servicesOk, file, query, results, retrievedChunks>>
    /\ UNCHANGED <<chunkVars, svcVars>>

-----------------------------------------------------------------------------
(* DocumentProcessor.generateSemanticChunks.                               *)
(*                                                                         *)
(* A page's content is a list of lines (the text is the lines joined by    *)
(* "\n").  The regular expressions are modelled on a vocabulary of lines:  *)
(* what each matches in each line is tabulated below.                      *)

HeaderA   == "SECTION 204-01A: FRONT SUSPENSION"
HeaderB   == "GROUP 303-01 ENGINE"
SubHeader == "TORQUE SPECIFICATIONS"
SpecLine  == "Cam Bolt Nut  350 Nm  258 lb-ft"
ProseLine == "Inspect the lower arm bushings for wear."
ShortLine == "2014 F-150"

\* SECTION_HEADER matches inside the line
IsSectionHeader(line) == line \in {HeaderA, HeaderB}

\* sectionMatch[1]: the (\d+-\d+[A-Z]?) group
HeaderCode(line) == IF line = HeaderA THEN "204-01A" ELSE "303-01"

\* the part of sectionMatch[2] that lies in the header's own line
HeaderTitle(line) == IF line = HeaderA THEN "FRONT SUSPENSION" ELSE "ENGINE"

\* [A-Z\s\-]+ under the i flag runs on through the following lines: the longest
\* prefix of a line made of letters, white space and hyphens (right-trimmed) ...
LetterPrefix(line) ==
    CASE line = SubHeader -> "TORQUE SPECIFICATIONS"
      [] line = SpecLine  -> "Cam Bolt Nut"
      [] line = ProseLine -> "Inspect the lower arm bushings for wear"
      [] line = HeaderA   -> "SECTION"
      [] line = HeaderB   -> "GROUP"
      [] OTHER            -> ""

\* ... and whether that prefix is the whole line, so that the match goes on.
AllLetters(line) == line = SubHeader

\* the split pattern (?=(?:TORQUE SPECIFICATIONS?|...)) matches at the line's start
IsSubHeader(line) == line = SubHeader

\* SPEC_VALUE_PATTERN matches inside the line
HasSpecValue(line) == line = SpecLine

\* lines.join("\n")
RECURSIVE JoinLines(_)
JoinLines(lines) ==
    IF lines = <<>> THEN ""
    ELSE IF Len(lines) = 1 THEN lines[1]
    ELSE lines[1] \o "\n" \o JoinLines(Tail(lines))

\* String(n) for a digit, and for a natural number
DigitToStr(d) ==
    CASE d = 0 -> "0" [] d = 1 -> "1" [] d = 2 -> "2" [] d = 3 -> "3" [] d = 4 -> "4"
      [] d = 5 -> "5" [] d = 6 -> "6" [] d = 7 -> "7" [] d = 8 -> "8" [] d = 9 -> "9"

RECURSIVE NatToStr(_)
NatToStr(n) == IF n < 10 THEN DigitToStr(n) ELSE NatToStr(n \div 10) \o DigitToStr(n % 10)

\* sectionMatch[2].trim(): the header's title and what the character class
\* takes of the lines after it.
RECURSIVE TitleTail(_)
TitleTail(rest) ==
    IF rest = <<>> THEN ""
    ELSE LET p == LetterPrefix(rest[1])
             t == IF AllLetters(rest[1]) THEN TitleTail(Tail(rest)) ELSE ""
         IN  (IF p = "" THEN "" ELSE "\n" \o p) \o t

\* page.content.match(SECTION_HEADER): the index of the line of the first match, 0 if none
FirstHeaderIndex(content) ==
    IF \E k \in 1..Len(content) : IsSectionHeader(content[k])
    THEN CHOOSE k \in 1..Len(content) :
            /\ IsSectionHeader(content[k])
            /\ \A j \in 1..(k - 1) : ~IsSectionHeader(content[j])
    ELSE 0

\* `${sectionMatch[1]}: ${sectionMatch[2].trim()}` for the match at line k
SectionLabel(content, k) ==
    HeaderCode(content[k]) \o ": " \o HeaderTitle(content[k])
        \o TitleTail(SubSeq(content, k + 1, Len(content)))

\* page.content.split(/(?=...)/i): a cut before every sub-header except at offset 0
\* (a zero-width match at the start of the text splits nothing; "" gives [""]).
SegmentStarts(content) == {1} \cup {k \in 2..Len(content) : IsSubHeader(content[k])}

SegmentEnd(content, k) ==
    LET later == {j \in SegmentStarts(content) : j > k}
    IN  IF later = {} THEN Len(content)
        ELSE (CHOOSE j \in later : \A j2 \in later : j <= j2) - 1

\* The segments in order: segments[sIdx + 1], each a list of lines
RECURSIVE SegmentsFrom(_, _)
SegmentsFrom(content, k) ==
    IF k > Len(content) THEN <<>>
    ELSE LET e == SegmentEnd(content, k)
         IN  <<SubSeq(content, k, e)>> \o SegmentsFrom(content, e + 1)

Segments(content) == IF content = <<>> THEN << <<>> >> ELSE SegmentsFrom(content, 1)

\* if (clean.length < 30) return
MinSegmentLength == 30

\* maxChunks: number = 300
DefaultMaxChunks == 300

\* A variant whose id names the page alone.
MakeChunkPageId(page, sIdx, seg, section) ==
    [id |-> "p" \o NatToStr(page.num),
     text |-> "SECTION: " \o section \o "\nPAGE: " \o NatToStr(page.num)
                 \o "\nCONTENT: " \o JoinLines(seg),
     section |-> section,
     page |-> page.num,
     isSpecPriority |-> \E k \in 1..Len(seg) : HasSpecValue(seg[k])]

\* The Chunk pushed for segment sIdx (0-based) of `page`
MakeChunk(page, sIdx, seg, section) ==
    LET clean == JoinLines(seg)
    IN  [id |-> "p" \o NatToStr(page.num) \o "-s" \o NatToStr(sIdx),
         text |-> "SECTION: " \o section \o "\nPAGE: " \o NatToStr(page.num)
                     \o "\nCONTENT: " \o clean,
         section |-> section,
         page |-> page.num,
         isSpecPriority |-> \E k \in 1..Len(seg) : HasSpecValue(seg[k])]

\* segments.forEach((seg, sIdx) => ...): the chunks one page adds
RECURSIVE PageChunks(_, _, _, _)
PageChunks(page, segs, sIdx, section) ==
    IF sIdx >= Len(segs) THEN <<>>
    ELSE LET seg == segs[sIdx + 1]
             rest == PageChunks(page, segs, sIdx + 1, section)
         IN  IF Len(JoinLines(seg)) < MinSegmentLength THEN rest
             ELSE <<MakeChunk(page, sIdx, seg, section)>> \o rest

\* A variant whose section does not outlive the page.
SectionResetPerPage(section, content) ==
    IF FirstHeaderIndex(content) # 0
    THEN SectionLabel(content, FirstHeaderIndex(content))
    ELSE "GENERAL INFORMATION"

\* activeSection after the header scan of a page
SectionAfter(section, content) ==
    IF FirstHeaderIndex(content) # 0
    THEN SectionLabel(content, FirstHeaderIndex(content))
    ELSE section

\* Array.prototype.slice(start, end)
Slice(seq, start, end) ==
    LET len == Len(seq)
        k   == IF start < 0 THEN Max(len + start, 0) ELSE Min(start, len)
        fin == IF end < 0 THEN Max(len + end, 0) ELSE Min(end, len)
    IN  SubSeq(seq, k + 1, fin)

IsSpec(c) == c.isSpecPriority
IsGeneral(c) == ~c.isSpecPriority

\* const specChunks = allChunks.filter(...), generalChunks = allChunks.filter(...)
specChunks(all) == SelectSeq(all, IsSpec)
generalChunks(all) == SelectSeq(all, IsGeneral)

\* generalChunks.slice(0, Math.max(0, maxChunks - specChunks.length))
GeneralFill(all, budget) ==
    Slice(generalChunks(all), 0, Max(0, budget - Len(specChunks(all))))

\* Variants of the selection: without the final cut; the flat cap of the
\* earlier version (the first `budget` chunks whatever their content); and
\* the general chunks put first.
SelectWithoutCeiling(all, budget) == specChunks(all) \o GeneralFill(all, budget)

SelectFlatCap(all, budget) == Slice(all, 0, budget)

SelectGeneralFirst(all, budget) ==
    Slice(GeneralFill(all, budget) \o specChunks(all), 0, budget)

\* [...specChunks, ...generalChunks.slice(...)].slice(0, maxChunks)
SelectWithinBudget(all, budget) ==
    Slice(specChunks(all) \o GeneralFill(all, budget), 0, budget)

\* pages.forEach((page) => ...): one page
ChunkPage ==
    /\ cpc = "pages"
    /\ pageIdx < Len(pages)
    /\ LET page == pages[pageIdx + 1]
           section == SectionAfter(activeSection, page.content)
       IN  /\ activeSection' = section
           /\ allChunks' = allChunks \o PageChunks(page, Segments(page.content), 0, section)
    /\ pageIdx' = pageIdx + 1
    /\ UNCHANGED <<pages, maxChunks, selected, cpc>>
    /\ UNCHANGED <<appVars, svcVars>>

\* after the loop: the selection, and the return
SelectChunks ==
    /\ cpc = "pages"
    /\ pageIdx = Len(pages)
    /\ selected' = SelectWithinBudget(allChunks, maxChunks)
    /\ cpc' = "done"
    /\ UNCHANGED <<pages, maxChunks, pageIdx, activeSection, allChunks>>
    /\ UNCHANGED <<appVars, svcVars>>

-----------------------------------------------------------------------------
(* DocumentProcessor.extractTextWithStructure (documentProcessor.ts):      *)
(* text items are grouped into rows by Y, rows are sorted top to bottom    *)
(* and items left to right.                                                *)

\* pixels: items within 3px vertical distance share a row
ROW_DELTA == 3

Abs(n) == IF n < 0 THEN -n ELSE n

\* Math.round of a coordinate given in tenths of a unit (half rounds up)
Round(t) == (t + 5) \div 10

\* The text items of the documents: item.str, item.transform[4] (x) and
\* item.transform[5] (y, in tenths of a unit).
ItemA == [str |-> "350",   x |-> 10, y |-> 1000]
ItemB == [str |-> "Nm ",   x |-> 50, y |-> 1024]
ItemC == [str |-> "258",   x |-> 50, y |-> 1026]
ItemD == [str |-> " ",     x |-> 5,  y |-> 400]
Items == {ItemA, ItemB, ItemC, ItemD}

\* item.str.trim()
TrimStr(s) ==
    CASE s = " "   -> ""
      [] s = "Nm " -> "Nm"
      [] OTHER     -> s

\* Array.from(lineMap.keys()).find((k) => Math.abs(k - y) < ROW_DELTA):
\* the position of the first key within the tolerance, 0 for undefined
RECURSIVE FindKeyFrom(_, _, _)
FindKeyFrom(lm, y, k) ==
    IF k > Len(lm) THEN 0
    ELSE IF Abs(lm[k].key - y) < ROW_DELTA THEN k
    ELSE FindKeyFrom(lm, y, k + 1)

\* a mutant of existingKey: the first row of the page takes every fragment
existingKeyAnyRow(lm, y) == IF lm = <<>> THEN 0 ELSE 1

\* a mutant of existingKey: the row whose key is nearest to y (the earliest
\* of the nearest), when it is within the tolerance
existingKeyNearest(lm, y) ==
    LET near == {k \in 1..Len(lm) : Abs(lm[k].key - y) < ROW_DELTA}
    IN  IF near = {} THEN 0
        ELSE CHOOSE k \in near :
                \A k2 \in near :
                    \/ Abs(lm[k].key - y) < Abs(lm[k2].key - y)
                    \/ (Abs(lm[k].key - y) = Abs(lm[k2].key - y) /\ k <= k2)

existingKey(lm, y) == FindKeyFrom(lm, y, 1)

\* one iteration of items.forEach: the Map after the item is placed
GroupItem(lm, item) ==
    LET y == Round(item.y)
        k == existingKey(lm, y)
    IN  IF k = 0 THEN Append(lm, [key |-> y, row |-> <<item>>])
        ELSE [lm EXCEPT ![k].row = Append(@, item)]

\* items.forEach(...) over a fresh Map
RECURSIVE GroupItems(_)
GroupItems(its) ==
    IF its = <<>> THEN <<>>
    ELSE GroupItem(GroupItems(SubSeq(its, 1, Len(its) - 1)), its[Len(its)])

\* a mutant of InsertRowDesc: rows bottom to top
InsertRowAsc(sorted, r) ==
    LET n == Cardinality({i \in 1..Len(sorted) : sorted[i].key <= r.key})
    IN  SubSeq(sorted, 1, n) \o <<r>> \o SubSeq(sorted, n + 1, Len(sorted))

\* .sort((a, b) => b - a) on the keys, one insertion of the (stable) sort:
\* the row goes after every row whose key is not smaller
InsertRowDesc(sorted, r) ==
    LET n == Cardinality({i \in 1..Len(sorted) : sorted[i].key >= r.key})
    IN  SubSeq(sorted, 1, n) \o <<r>> \o SubSeq(sorted, n + 1, Len(sorted))

RECURSIVE SortRowsDesc(_)
SortRowsDesc(lm) ==
    IF lm = <<>> THEN <<>>
    ELSE InsertRowDesc(SortRowsDesc(SubSeq(lm, 1, Len(lm) - 1)), lm[Len(lm)])

\* a mutant of InsertItemByX: the row is left in arrival order
InsertItemLast(sorted, it) == Append(sorted, it)

\* .sort((a, b) => a.transform[4] - b.transform[4]), one insertion of the
\* (stable) sort: the item goes after every item whose x is not larger
InsertItemByX(sorted, it) ==
    LET n == Cardinality({i \in 1..Len(sorted) : sorted[i].x <= it.x})
    IN  SubSeq(sorted, 1, n) \o <<it>> \o SubSeq(sorted, n + 1, Len(sorted))

RECURSIVE SortItemsByX(_)
SortItemsByX(row) ==
    IF row = <<>> THEN <<>>
    ELSE InsertItemByX(SortItemsByX(SubSeq(row, 1, Len(row) - 1)), row[Len(row)])

\* .filter(Boolean) after the trim: the items whose trimmed text is not empty
IsVisible(it) == TrimStr(it.str) # ""

\* seq.join(sep)
RECURSIVE JoinWith(_, _)
JoinWith(strs, sep) ==
    IF strs = <<>> THEN ""
    ELSE IF Len(strs) = 1 THEN strs[1]
    ELSE strs[1] \o sep \o JoinWith(Tail(strs), sep)

\* .map((item) => item.str.trim()).filter(Boolean).join("  ")
RowLine(row) ==
    JoinWith([i \in 1..Len(row) |-> TrimStr(row[i].str)], "  ")

\* The rows of the page text: sorted top to bottom, each row sorted left to
\* right, items with blank text dropped, rows without text dropped.
HasText(r) == r.row # <<>>

EmittedRows(lm) ==
    LET sorted == SortRowsDesc(lm)
        rows   == [i \in 1..Len(sorted) |->
                      [key |-> sorted[i].key,
                       row |-> SelectSeq(SortItemsByX(sorted[i].row), IsVisible)]]
    IN  SelectSeq(rows, HasText)

\* const pageText = ... .join("\n")
PageText(rows) == JoinWith([i \in 1..Len(rows) |-> RowLine(rows[i].row)], "\n")

\* the page text extractTextWithStructure produces for items in this order
ReconstructPage(its) == PageText(EmittedRows(GroupItems(its)))

\* pages per document
MaxDocPages == 2
\* text items per page
MaxItems == 3

\* The items of a page in the order getTextContent delivers them: every
\* arrangement of up to MaxItems different items.
ItemLists ==
    UNION { { its \in [1..n -> Items] : \A i, j \in 1..n : i # j => its[i] # its[j] }
            : n \in 0..MaxItems }

\* pdfjsLib.getDocument(...).promise resolves
OpenDocument ==
    /\ xpc = "open"
    /\ xpc' = "page"
    /\ UNCHANGED <<numPages, pageNo, items, lineMap, emitted, outPages, xerr,
                   xcause, xret>>
    /\ UNCHANGED otherThanRows

\* pdfjsLib.getDocument(...).promise rejects: the error is wrapped and thrown
OpenFails ==
    /\ xpc = "open"
    /\ \E cause \in PdfCauses :
           /\ xcause' = cause
           /\ xerr' = DocumentOpenError(cause)
    /\ xpc' = "failed"
    /\ UNCHANGED <<numPages, pageNo, items, lineMap, emitted, outPages, xret>>
    /\ UNCHANGED otherThanRows

\* await file.arrayBuffer(), await pdf.getPage(i) or await page.getTextContent()
\* rejects: outside the try block, the error leaves the method as it is
ReadFails ==
    /\ xpc = "open" \/ (xpc = "page" /\ pageNo < numPages)
    /\ \E cause \in PdfCauses :
           /\ xcause' = cause
           /\ xerr' = cause
    /\ xpc' = "failed"
    /\ UNCHANGED <<numPages, pageNo, items, lineMap, emitted, outPages, xret>>
    /\ UNCHANGED otherThanRows

\* one iteration of for (let i = 1; i <= pdf.numPages; i++)
ReadPage ==
    /\ xpc = "page"
    /\ pageNo < numPages
    /\ pageNo' = pageNo + 1
    /\ \E its \in ItemLists :
           /\ items' = its
           /\ lineMap' = GroupItems(its)
    /\ emitted' = EmittedRows(lineMap')
    /\ outPages' = Append(outPages, [num |-> pageNo + 1, content |-> PageText(emitted')])
    /\ UNCHANGED <<numPages, xerr, xcause, xret, xpc>>
    /\ UNCHANGED otherThanRows

\* return { text: fullText, pages }
ReturnPages ==
    /\ xpc = "page"
    /\ pageNo = numPages
    /\ xret' = <<outPages>>
    /\ xpc' = "done"
    /\ UNCHANGED <<numPages, pageNo, items, lineMap, emitted, outPages, xerr, xcause>>
    /\ UNCHANGED otherThanRows

-----------------------------------------------------------------------------
(* retrieveRelevantChunks and cosineSimilarity (groqService.ts 80-110,     *)
(* openaiService.ts 57-82; the two classes have the same code).            *)

Services == {"groq", "openai"}

RECURSIVE GCD(_, _)
GCD(a, b) == IF b = 0 THEN a ELSE GCD(b, a % b)

\* dot += a[i] * b[i]
RECURSIVE Dot(_, _)
Dot(a, b) == IF a = <<>> THEN 0 ELSE a[1] * b[1] + Dot(Tail(a), Tail(b))

\* A similarity dot / mag is kept exactly, as its sign and its square
\* num / den in lowest terms.
ScoreOf(dot, mag2) ==
    LET g == GCD(dot * dot, mag2)
    IN  [neg |-> dot < 0, num |-> (dot * dot) \div g, den |-> mag2 \div g]

ZeroScore == [neg |-> FALSE, num |-> 0, den |-> 1]

\* private cosineSimilarity(a, b)
cosineSimilarity(a, b) ==
    IF Len(a) # Len(b) \/ Len(a) = 0 THEN ZeroScore
    ELSE LET normA == Dot(a, a)
             normB == Dot(b, b)
         IN  IF normA * normB = 0 THEN ZeroScore
             ELSE ScoreOf(Dot(a, b), normA * normB)

\* the order of two similarities: s.score < t.score
Signed(s) == IF s.neg THEN -s.num ELSE s.num
ScoreLess(s, t) == Signed(s) * t.den < Signed(t) * s.den

\* a mutant of HasEmbedding: chunks without a vector are ranked too
HasEmbeddingAlways(c) == TRUE

\* .filter((c) => c.embedding && c.embedding.length > 0)
HasEmbedding(c) == c.embedded /\ Len(c.embedding) > 0

\* .map((chunk) => ({ chunk, score: this.cosineSimilarity(queryEmbedding, chunk.embedding!) }))
ScoreChunk(q, c) == [chunk |-> c, score |-> cosineSimilarity(q, c.embedding)]

\* a mutant of InsertScored: a later chunk goes before the chunks of equal score
InsertScoredBeforeEqual(sorted, sc) ==
    LET n == Cardinality({i \in 1..Len(sorted) : ScoreLess(sc.score, sorted[i].score)})
    IN  SubSeq(sorted, 1, n) \o <<sc>> \o SubSeq(sorted, n + 1, Len(sorted))

\* .sort((a, b) => b.score - a.score), one insertion of the (stable) sort:
\* the entry goes after every entry whose score is not smaller
InsertScored(sorted, sc) ==
    LET n == Cardinality({i \in 1..Len(sorted) : ~ScoreLess(sorted[i].score, sc.score)})
    IN  SubSeq(sorted, 1, n) \o <<sc>> \o SubSeq(sorted, n + 1, Len(sorted))

RECURSIVE SortScoredDesc(_)
SortScoredDesc(scs) ==
    IF scs = <<>> THEN <<>>
    ELSE InsertScored(SortScoredDesc(SubSeq(scs, 1, Len(scs) - 1)), scs[Len(scs)])

\* const scored = chunks.filter(...).map(...).sort(...).slice(0, k)
TopScored(q, cs, kk) ==
    LET embedded == SelectSeq(cs, HasEmbedding)
        all      == [i \in 1..Len(embedded) |-> ScoreChunk(q, embedded[i])]
    IN  Slice(SortScoredDesc(all), 0, kk)

\* const context = scored.map((sc) => sc.chunk.text).join("\n---\n")
ContextOf(scs) == JoinWith([i \in 1..Len(scs) |-> scs[i].chunk.text], "\n---\n")

\* chunks per call of retrieveRelevantChunks
MaxChunkList == 3

\* the vectors of the chunks and of the query
Embeddings == { <<1, 0>>, <<1, 1>>, <<0, 1>>, <<0, 0>>, <<-1, 0>>, <<1>>, <<>> }
QueryEmbeddings == { <<1, 0>>, <<1, 1>> }

\* chunk.embedding: a vector, an empty vector, or undefined
ChunkEmbeddings ==
    { [embedded |-> TRUE, embedding |-> e] : e \in Embeddings }
        \cup { [embedded |-> FALSE, embedding |-> <<>>] }

\* The chunk lists: the i-th chunk has id i and a text of its own.
ChunkLists ==
    UNION { { [i \in 1..n |-> [id |-> i, text |-> "T" \o NatToStr(i),
                               embedded |-> e[i].embedded,
                               embedding |-> e[i].embedding]] :
                e \in [1..n -> ChunkEmbeddings] }
            : n \in 0..MaxChunkList }

\* the values of k: the default and smaller ones
Ks == {0, 1, 2, TopK}

\* await this.getEmbedding(query) resolves; the rest of the method is synchronous
Retrieve ==
    /\ kpc = "call"
    /\ \E q \in QueryEmbeddings :
           /\ queryEmbedding' = q
           /\ scored' = TopScored(q, chunkList, kArg)
    /\ context' = ContextOf(scored')
    /\ kpc' = "done"
    /\ UNCHANGED <<svc, chunkList, kArg>>
    /\ UNCHANGED otherThanRetr

\* await this.getEmbedding(query) rejects (the remote embedding of OpenAIService)
QueryEmbeddingFails ==
    /\ kpc = "call"
    /\ svc = "openai"
    /\ kpc' = "failed"
    /\ UNCHANGED <<svc, queryEmbedding, chunkList, kArg, scored, context>>
    /\ UNCHANGED otherThanRetr

-----------------------------------------------------------------------------
(* extractSpecs (groqService.ts 121-176, openaiService.ts 84-142): one     *)
(* chat completion, then the parse of its content.                         *)

\* The content of a response is a sequence of tokens separated by white
\* space: JSON punctuation, JSON objects, a word of prose, a code fence
\* (three backquotes, with or without json after them), written FENCE.
RecordTokens == {"R", "L", "X"}
Tokens == {"[", "]", ","} \cup RecordTokens \cup {"P", "FENCE"}

\* The JSON objects of the responses: a record of the VehicleSpec shape, one
\* of that shape with a low confidence, and an object of another shape.
\* confidence is in hundredths.
SpecR == [type |-> "object", component |-> "Cam Bolt Nut", spec_type |-> "Torque",
          value |-> "350", unit |-> "Nm", confidence |-> 92]
SpecL == [type |-> "object", component |-> "Hub Nut", spec_type |-> "Torque",
          value |-> "40", unit |-> "Nm", confidence |-> 30]
SpecX == [type |-> "object", component |-> "Hub Nut", note |-> "see table"]

ObjectOf(tok) ==
    CASE tok = "R" -> SpecR
      [] tok = "L" -> SpecL
      [] tok = "X" -> SpecX

ArrayOf(elems) == [type |-> "array", elems |-> elems]

\* the result of a parse that throws SyntaxError
SyntaxError == [ok |-> FALSE, val |-> [type |-> "none"], next |-> 0]

\* JSON.parse, a value starting at token i: an object, or an array
\* [ value , value ... ]; next is the position after the value
RECURSIVE ParseValue(_, _), ParseElements(_, _, _)
ParseValue(t, i) ==
    IF i > Len(t) THEN SyntaxError
    ELSE IF t[i] \in RecordTokens THEN [ok |-> TRUE, val |-> ObjectOf(t[i]), next |-> i + 1]
    ELSE IF t[i] = "[" THEN
        IF i + 1 <= Len(t) /\ t[i + 1] = "]"
        THEN [ok |-> TRUE, val |-> ArrayOf(<<>>), next |-> i + 2]
        ELSE ParseElements(t, i + 1, <<>>)
    ELSE SyntaxError

\* the elements of an array from token i on, acc being those already read
ParseElements(t, i, acc) ==
    LET v == ParseValue(t, i)
    IN  IF ~v.ok \/ v.next > Len(t) THEN SyntaxError
        ELSE IF t[v.next] = "]"
             THEN [ok |-> TRUE, val |-> ArrayOf(Append(acc, v.val)), next |-> v.next + 1]
        ELSE IF t[v.next] = ","
             THEN ParseElements(t, v.next + 1, Append(acc, v.val))
        ELSE SyntaxError

\* JSON.parse(text): the whole text is one value
JSONParse(t) ==
    LET v == ParseValue(t, 1)
    IN  IF v.ok /\ v.next = Len(t) + 1 THEN v ELSE SyntaxError

\* raw.replace(/^FENCE(?:json)?\s*/i, "").replace(/\s*FENCE$/, "").trim()
StripFences(t) ==
    LET a == IF t # <<>> /\ t[1] = "FENCE" THEN Tail(t) ELSE t
    IN  IF a # <<>> /\ a[Len(a)] = "FENCE" THEN SubSeq(a, 1, Len(a) - 1) ELSE a

\* the first balanced [...] of a text: the position of its closing bracket
RECURSIVE BalancedEnd(_, _, _)
BalancedEnd(t, i, depth) ==
    IF i > Len(t) THEN 0
    ELSE IF t[i] = "[" THEN BalancedEnd(t, i + 1, depth + 1)
    ELSE IF t[i] = "]" THEN (IF depth = 1 THEN i ELSE BalancedEnd(t, i + 1, depth - 1))
    ELSE BalancedEnd(t, i + 1, depth)

FirstBalanced(t) ==
    LET opens == {i \in 1..Len(t) : t[i] = "[" /\ BalancedEnd(t, i, 0) # 0}
    IN  IF opens = {} THEN [found |-> FALSE, text |-> <<>>]
        ELSE LET i == CHOOSE x \in opens : \A y \in opens : x <= y
             IN  [found |-> TRUE, text |-> SubSeq(t, i, BalancedEnd(t, i, 0))]

\* text.match(/\[[\s\S]*\]/): from the first "[" to the last "]" after it
MatchBrackets(t) ==
    LET opens  == {i \in 1..Len(t) : t[i] = "["}
        closes == {i \in 1..Len(t) : t[i] = "]"}
    IN  IF opens = {} \/ closes = {} THEN [found |-> FALSE, text |-> <<>>]
        ELSE LET i == CHOOSE x \in opens : \A y \in opens : x <= y
                 j == CHOOSE x \in closes : \A y \in closes : x >= y
             IN  IF i < j THEN [found |-> TRUE, text |-> SubSeq(t, i, j)]
                 ELSE [found |-> FALSE, text |-> <<>>]

\* Array.isArray(parsed) ? parsed : []
ArrayOrEmpty(v) == IF v.type = "array" THEN v.elems ELSE <<>>

\* GroqService.extractSpecs, from the content of the response to the return
GroqParse(content) ==
    LET rawText == IF content = <<>> THEN <<"[", "]">> ELSE content
        clean   == StripFences(rawText)
        parsed  == JSONParse(clean)
        match   == MatchBrackets(clean)
    IN  IF parsed.ok THEN ArrayOrEmpty(parsed.val)
        ELSE IF match.found /\ JSONParse(match.text).ok
             THEN JSONParse(match.text).val.elems
        ELSE <<>>

\* OpenAIService.extractSpecs, from the content of the response to the return
OpenAIParse(content) ==
    LET jsonMatch == MatchBrackets(content)
        jsonStr   == IF jsonMatch.found THEN jsonMatch.text ELSE content
        parsed    == JSONParse(jsonStr)
    IN  IF parsed.ok THEN ArrayOrEmpty(parsed.val) ELSE <<>>

ParseResponse(s, content) ==
    IF s = "groq" THEN GroqParse(content) ELSE OpenAIParse(content)

\* the message of the SyntaxError of JSON.parse
SyntaxErrorMessage == "Unexpected token"

\* a mutant of ParseOutcome: the parse is not guarded by a try of its own, so
\* a SyntaxError reaches the outer catch block
ParseOutcomeUncaught(s, content) ==
    LET text == IF s = "groq"
                THEN StripFences(IF content = <<>> THEN <<"[", "]">> ELSE content)
                ELSE (IF MatchBrackets(content).found
                      THEN MatchBrackets(content).text ELSE content)
    IN  [threw |-> ~JSONParse(text).ok, list |-> ParseResponse(s, content)]

\* The inner try ... catch of extractSpecs: whatever JSON.parse throws is
\* caught there, and the method returns a list.
ParseOutcome(s, content) == [threw |-> FALSE, list |-> ParseResponse(s, content)]

\* the messages of the rejections of chat.completions.create
LlmCauses == ApiCauses \cup {""}

\* the outer catch block of extractSpecs
ExtractionErrorOf(s, msg) ==
    IF s = "groq" THEN GroqExtractionError(msg) ELSE OpenAIExtractionError(msg)

\* tokens per response
MaxTokens == 5

\* the contents of the responses: every sequence of up to MaxTokens tokens
Contents == UNION { [1..n -> Tokens] : n \in 0..MaxTokens }

\* await this.client.chat.completions.create({...}) is called
CallModel ==
    /\ ppc = "start"
    /\ pcalls' = pcalls + 1
    /\ ppc' = "await"
    /\ UNCHANGED <<svc, pcause, raw, specsOut, perr>>
    /\ UNCHANGED otherThanParse

\* the call resolves: the content is parsed and the list is returned
ResponseArrives ==
    /\ ppc = "await"
    /\ \E content \in Contents :
           LET out == ParseOutcome(svc, content)
           IN  /\ raw' = content
               /\ specsOut' = out.list
               /\ perr' = IF out.threw THEN ExtractionErrorOf(svc, SyntaxErrorMessage) ELSE perr
               /\ ppc' = IF out.threw THEN "failed" ELSE "done"
    /\ UNCHANGED <<svc, pcalls, pcause>>
    /\ UNCHANGED otherThanParse

\* the call rejects: the outer catch block throws
CallFails ==
    /\ ppc = "await"
    /\ \E cause \in LlmCauses :
           /\ pcause' = cause
           /\ perr' = ExtractionErrorOf(svc, cause)
    /\ ppc' = "failed"
    /\ UNCHANGED <<svc, pcalls, raw, specsOut>>
    /\ UNCHANGED otherThanParse

-----------------------------------------------------------------------------
(* getEmbedding and getBatchEmbeddings (groqService.ts 45-78,              *)
(* openaiService.ts 33-55).  A text is the sequence of its character codes.*)

\* const dim = 1536
dim == 1536

\* text.toLowerCase(), one character
ToLower(c) == IF c \in 65..90 THEN c + 32 ELSE c

\* \w of the regular expression
IsWordChar(c) == c \in (48..57) \cup (65..90) \cup (97..122) \cup {95}

\* The 32-bit hash is kept as its two 16-bit halves [hi, lo] (the bit
\* pattern of the signed integer).
\* hash = ((hash << 5) - hash + word.charCodeAt(i)) | 0: hash * 31 + c, wrapped
HashStep(hash, c) ==
    LET low == hash.lo * 31 + c
    IN  [hi |-> (hash.hi * 31 + low \div 65536) % 65536, lo |-> low % 65536]

RECURSIVE WordHash(_, _)
WordHash(w, hash) ==
    IF w = <<>> THEN hash ELSE WordHash(Tail(w), HashStep(hash, w[1]))

\* Math.abs(hash) % dim, from the halves: 65536 % dim = 1024, 2^32 % dim = 1024
AbsHashBucket(hash) ==
    LET u == ((hash.hi % dim) * 1024 + hash.lo) % dim
    IN  IF hash.hi >= 32768 THEN (1024 + dim - u) % dim ELSE u

\* const autoTerms
autoTerms ==
    {
      <<116, 111, 114, 113, 117, 101>>, <<110, 109>>,   \* torque, nm
      <<108, 98>>, <<102, 116>>,   \* lb, ft
      <<99, 97, 112, 97, 99, 105, 116, 121>>, <<112, 114, 101, 115, 115, 117, 114, 101>>,   \* capacity, pressure
      <<102, 108, 117, 105, 100>>, <<98, 111, 108, 116>>,   \* fluid, bolt
      <<110, 117, 116>>, <<115, 112, 101, 99>>,   \* nut, spec
      <<108, 105, 116, 101, 114>>, <<112, 115, 105>>,   \* liter, psi
      <<99, 108, 101, 97, 114, 97, 110, 99, 101>>   \* clearance
    }

\* normalized.match(/\b\w+\b/g) || []: the maximal runs of word characters
RECURSIVE WordsFrom(_, _, _)
WordsFrom(t, i, cur) ==
    IF i > Len(t) THEN (IF cur = <<>> THEN <<>> ELSE <<cur>>)
    ELSE IF IsWordChar(t[i]) THEN WordsFrom(t, i + 1, Append(cur, t[i]))
    ELSE (IF cur = <<>> THEN <<>> ELSE <<cur>>) \o WordsFrom(t, i + 1, <<>>)

\* the additions to the vector: <<bucket, weight>> for every bigram and word
BigramAdds(t) ==
    [i \in 1..(IF Len(t) = 0 THEN 0 ELSE Len(t) - 1) |->
        <<Abs((t[i] * 31 + t[i + 1]) % dim), 1>>]

WordAdds(t) ==
    LET words == WordsFrom(t, 1, <<>>)
    IN  [i \in 1..Len(words) |->
            <<AbsHashBucket(WordHash(words[i], [hi |-> 0, lo |-> 0])),
              IF words[i] \in autoTerms THEN 3 ELSE 1>>]

RECURSIVE SumWeights(_, _)
SumWeights(adds, b) ==
    IF adds = <<>> THEN 0
    ELSE (IF adds[1][1] = b THEN adds[1][2] ELSE 0) + SumWeights(Tail(adds), b)

RECURSIVE SumSquares(_, _)
SumSquares(counts, bs) ==
    IF bs = {} THEN 0
    ELSE LET b == CHOOSE x \in bs : TRUE
         IN  counts[b] * counts[b] + SumSquares(counts, bs \ {b})

\* GroqService.getEmbedding(text): the vector is kept as its non-zero
\* counts before the division and the square of the norm they are divided by
getEmbedding(text) ==
    LET normalized == [i \in 1..Min(Len(text), 2000) |-> ToLower(text[i])]
        adds       == BigramAdds(normalized) \o WordAdds(normalized)
        buckets    == {adds[i][1] : i \in 1..Len(adds)}
        counts     == [b \in buckets |-> SumWeights(adds, b)]
        norm       == SumSquares(counts, buckets)
    IN  [counts |-> counts, norm2 |-> IF norm = 0 THEN 1 ELSE norm]

\* the embedding the remote model computes for a text
RemoteEmbedding(text) == [model |-> "text-embedding-3-small", input |-> text]

\* response.data of a well-formed response: one item per input, in input order
ResponseData(ts) == [i \in 1..Len(ts) |-> [index |-> i - 1, embedding |-> RemoteEmbedding(ts[i])]]

\* a mutant of InsertByIndex: the items stay as the response listed them
InsertAtEnd(sorted, item) == Append(sorted, item)

\* .sort((a, b) => a.index - b.index), one insertion of the (stable) sort
InsertByIndex(sorted, item) ==
    LET n == Cardinality({i \in 1..Len(sorted) : sorted[i].index <= item.index})
    IN  SubSeq(sorted, 1, n) \o <<item>> \o SubSeq(sorted, n + 1, Len(sorted))

RECURSIVE SortByIndex(_)
SortByIndex(d) ==
    IF d = <<>> THEN <<>>
    ELSE InsertByIndex(SortByIndex(SubSeq(d, 1, Len(d) - 1)), d[Len(d)])

\* texts per call of getBatchEmbeddings
MaxTexts == 3

\* the texts: "Nm", "bolt nm", "A"
BatchTexts == { <<78, 109>>, <<98, 111, 108, 116, 32, 110, 109>>, <<65>> }
TextLists == UNION { [1..n -> BatchTexts] : n \in 0..MaxTexts }

\* the orders in which a response can list its items
Orderings(d) ==
    { [i \in 1..Len(d) |-> d[p[i]]] :
        p \in { q \in [1..Len(d) -> 1..Len(d)] :
                  \A i, j \in 1..Len(d) : i # j => q[i] # q[j] } }

\* GroqService.getBatchEmbeddings: Promise.all(texts.map((t) => this.getEmbedding(t)))
GroqBatchEmbeddings ==
    /\ epc = "call"
    /\ svc = "groq"
    /\ vectors' = [i \in 1..Len(texts) |-> getEmbedding(texts[i])]
    /\ epc' = "done"
    /\ UNCHANGED <<svc, texts, data, eerr, requests>>
    /\ UNCHANGED otherThanEmb

\* OpenAIService.getBatchEmbeddings, the response has data: sort and map
OpenAIBatchEmbeddings ==
    /\ epc = "call"
    /\ svc = "openai"
    /\ texts # <<>>
    /\ \E d \in Orderings(ResponseData(texts)) :
           /\ data' = d
           /\ vectors' = [i \in 1..Len(d) |-> SortByIndex(d)[i].embedding]
    /\ epc' = "done"
    /\ requests' = Append(requests, texts)
    /\ UNCHANGED <<svc, texts, eerr>>
    /\ UNCHANGED otherThanEmb

\* OpenAIService.getBatchEmbeddings, the response has no data: the throw of
\* "No embeddings returned" lands in the catch block of the method
OpenAIBatchNoData ==
    /\ epc = "call"
    /\ svc = "openai"
    /\ eerr' = OpenAIEmbeddingError("No embeddings returned")
    /\ epc' = "failed"
    /\ requests' = Append(requests, texts)
    /\ UNCHANGED <<svc, texts, data, vectors>>
    /\ UNCHANGED otherThanEmb

\* OpenAIService.getBatchEmbeddings, embeddings.create rejects
OpenAIBatchFails ==
    /\ epc = "call"
    /\ svc = "openai"
    /\ \E cause \in ApiCauses : eerr' = OpenAIEmbeddingError(cause)
    /\ epc' = "failed"
    /\ requests' = Append(requests, texts)
    /\ UNCHANGED <<svc, texts, data, vectors>>
    /\ UNCHANGED otherThanEmb

-----------------------------------------------------------------------------
(* OpenAIService.getEmbedding (openaiService.ts 19-31): one request for    *)
(* the text and, when that fails, getBatchEmbeddings([text]).              *)

\* what the single request can fail with: the API's rejections and the throw
\* of "Empty embedding response" inside the try block
SingleCauses == ApiCauses \cup {"Empty embedding response"}

\* a mutant of BatchOfOne: the text is sent twice in the fallback batch
BatchOfTwo(text) == <<text, text>>

\* the argument of the fallback: this.getBatchEmbeddings([text])
BatchOfOne(text) == <<text>>

\* embeddings.create({ input: text }) resolves with data[0].embedding
SingleEmbedding ==
    /\ gpc = "single"
    /\ requests' = Append(requests, gtext)
    /\ gvec' = <<RemoteEmbedding(gtext)>>
    /\ gpc' = "done"
    /\ UNCHANGED <<svc, gtext, gcause, gerr>>
    /\ UNCHANGED <<texts, data, vectors, eerr, epc>>
    /\ UNCHANGED otherThanGet

\* the single request rejects, or its response has no embedding: catch (e)
\* calls getBatchEmbeddings([text])
SingleFails ==
    /\ gpc = "single"
    /\ requests' = Append(requests, gtext)
    /\ \E cause \in SingleCauses : gcause' = cause
    /\ texts' = BatchOfOne(gtext)
    /\ epc' = "call"
    /\ gpc' = "batch"
    /\ UNCHANGED <<svc, gtext, gvec, gerr>>
    /\ UNCHANGED <<data, vectors, eerr>>
    /\ UNCHANGED otherThanGet

\* const batch = await this.getBatchEmbeddings([text]) resolves: return batch[0]
BatchReturns ==
    /\ gpc = "batch"
    /\ epc = "done"
    /\ gvec' = <<vectors[1]>>
    /\ gpc' = "done"
    /\ UNCHANGED <<svc, gtext, gcause, gerr>>
    /\ UNCHANGED embVars
    /\ UNCHANGED otherThanGet

\* await this.getBatchEmbeddings([text]) rejects: the error leaves getEmbedding
BatchThrows ==
    /\ gpc = "batch"
    /\ epc = "failed"
    /\ gerr' = eerr
    /\ gpc' = "failed"
    /\ UNCHANGED <<svc, gtext, gcause, gvec>>
    /\ UNCHANGED embVars
    /\ UNCHANGED otherThanGet

-----------------------------------------------------------------------------
(* The services at rest.                                                   *)

\* The layout variables while another part is the system under study.
RowsOff ==
    /\ numPages = 0
    /\ pageNo = 0
    /\ items = <<>>
    /\ lineMap = <<>>
    /\ emitted = <<>>
    /\ outPages = <<>>
    /\ xerr = NULL
    /\ xcause = NULL
    /\ xret = <<>>
    /\ xpc = "off"

\* The retrieval variables while another part is the system under study.
RetrOff ==
    /\ queryEmbedding = <<>>
    /\ chunkList = <<>>
    /\ kArg = 0
    /\ scored = <<>>
    /\ context = ""
    /\ kpc = "off"

\* The extraction variables while another part is the system under study.
ParseOff ==
    /\ pcalls = 0
    /\ pcause = NULL
    /\ raw = <<>>
    /\ specsOut = <<>>
    /\ perr = NULL
    /\ ppc = "off"

\* The embedding variables while another part is the system under study.
EmbOff ==
    /\ texts = <<>>
    /\ data = <<>>
    /\ vectors = <<>>
    /\ eerr = NULL
    /\ epc = "off"
    /\ requests = <<>>

\* The getEmbedding variables while another part is the system under study.
GetOff ==
    /\ gtext = <<>>
    /\ gcause = NULL
    /\ gvec = <<>>
    /\ gerr = NULL
    /\ gpc = "off"

ServicesOff == svc = "groq" /\ RowsOff /\ RetrOff /\ ParseOff /\ EmbOff /\ GetOff

-----------------------------------------------------------------------------
(* The application.                                                        *)

\* The chunker variables while the application is the system under study.
ChunkerOff ==
    /\ pages = <<>>
    /\ maxChunks = 0
    /\ pageIdx = 0
    /\ activeSection = ""
    /\ allChunks = <<>>
    /\ selected = <<>>
    /\ cpc = "off"

Init ==
    /\ app \in Apps
    \* new GroqService() throws without an API key; OpenAIService only warns
    /\ servicesOk \in (IF app = "groq" THEN BOOLEAN ELSE {TRUE})
    /\ file = FALSE
    /\ query = ""
    /\ isProcessing = FALSE
    /\ steps = INITIAL_STEPS
    /\ results = <<>>
    /\ retrievedChunks = 0
    /\ error = NULL
    /\ runs = <<>>
    /\ ChunkerOff
    /\ ServicesOff

Next ==
    \/ SetFile
    \/ SetQuery
    \/ ClickRun
    \/ PressEnter
    \/ \E r \in DOMAIN runs : ExtractDone(r)
    \/ \E r \in DOMAIN runs : EmbedBatchDone(r)
    \/ \E r \in DOMAIN runs : RetrieveDone(r)
    \/ \E r \in DOMAIN runs : ParseDone(r)
    \/ \E r \in DOMAIN runs : StageFails(r)

Spec == Init /\ [][Next]_vars

\* The awaited call of run r settles: the promise resolves or rejects.
AwaitSettles(r) ==
    /\ r \in DOMAIN runs
    /\ \/ ExtractDone(r)
       \/ EmbedBatchDone(r)
       \/ RetrieveDone(r)
       \/ ParseDone(r)
       \/ StageFails(r)

\* calls of runPipeline that get past the guards, per behaviour of SpecLive
MaxLiveRuns == 1

NextLive == Next /\ Len(runs') <= MaxLiveRuns

\* The application when every external call (the document parse, each
\* embedding batch, the query embedding, the LLM request) eventually returns
\* or fails.  Nothing is assumed of the user.
SpecLive ==
    Init /\ [][NextLive]_vars /\ \A r \in 1..MaxLiveRuns : WF_vars(AwaitSettles(r))

-----------------------------------------------------------------------------
(* The chunker on bounded inputs.                                          *)

\* pages per document
MaxPages == 3
\* budgets 0..MaxBudget, and the default budget
MaxBudget == 3

\* The page contents the documents are made of.
PageContents ==
    { <<ProseLine>>,                        \* prose, no header
      <<HeaderA, ProseLine>>,               \* a header and prose
      <<HeaderB, SubHeader, SpecLine>>,     \* a header, then a torque table
      <<SpecLine>>,                         \* a table row, no header
      <<HeaderA, SpecLine, HeaderB>>,       \* two headers on one page
      <<ShortLine>>,                        \* noise
      <<ProseLine, SubHeader, SpecLine>>,   \* prose, then a torque table
      <<>> }                                \* no text

\* extractTextWithStructure: pages.push({ num: i, content: pageText }) for i = 1..numPages
PageLists ==
    UNION { { [i \in 1..n |-> [num |-> i, content |-> c[i]]] : c \in [1..n -> PageContents] }
            : n \in 0..MaxPages }

Budgets == (0..MaxBudget) \cup {DefaultMaxChunks}

\* The application variables while the chunker is the system under study.
AppOff ==
    /\ app = "groq"
    /\ servicesOk = TRUE
    /\ file = FALSE
    /\ query = ""
    /\ isProcessing = FALSE
    /\ steps = INITIAL_STEPS
    /\ results = <<>>
    /\ retrievedChunks = 0
    /\ error = NULL
    /\ runs = <<>>

InitChunker ==
    /\ pages \in PageLists
    /\ maxChunks \in Budgets
    /\ pageIdx = 0
    /\ activeSection = "GENERAL INFORMATION"
    /\ allChunks = <<>>
    /\ selected = <<>>
    /\ cpc = "pages"
    /\ AppOff
    /\ ServicesOff

NextChunker ==
    \/ ChunkPage
    \/ SelectChunks

SpecChunker == InitChunker /\ [][NextChunker]_vars

-----------------------------------------------------------------------------
(* The layout reconstructor on bounded documents, called by the first run  *)
(* of an application.                                                      *)

\* The application after runPipeline passed its guards and awaits
\* docProcessor.extractTextWithStructure(file).
AwaitingExtract ==
    /\ app \in Apps
    /\ servicesOk = TRUE
    /\ file = TRUE
    /\ query = "torque"
    /\ isProcessing = TRUE
    /\ steps = updateStep(INITIAL_STEPS, "extract", "loading", NoDesc)
    /\ results = <<>>
    /\ retrievedChunks = 0
    /\ error = NULL
    /\ runs = <<NewRun>>

\* const { pages } = await docProcessor.extractTextWithStructure(file) resolves
RunGetsPages ==
    /\ xpc = "done"
    /\ \E r \in DOMAIN runs : ExtractDone(r)

\* the await rejects with the error extractTextWithStructure threw: catch (err)
RunCatches ==
    /\ xpc = "failed"
    /\ \E r \in DOMAIN runs :
           /\ runs[r].pc = "extract"
           /\ StageFails(r)
           /\ runs'[r].err = xerr

InitRows ==
    /\ numPages \in 1..MaxDocPages
    /\ pageNo = 0
    /\ items = <<>>
    /\ lineMap = <<>>
    /\ emitted = <<>>
    /\ outPages = <<>>
    /\ xerr = NULL
    /\ xcause = NULL
    /\ xret = <<>>
    /\ xpc = "open"
    /\ svc = "groq"
    /\ RetrOff /\ ParseOff /\ EmbOff /\ GetOff
    /\ AwaitingExtract
    /\ ChunkerOff

NextRows ==
    \/ OpenDocument
    \/ OpenFails
    \/ ReadFails
    \/ ReadPage
    \/ ReturnPages
    \/ RunGetsPages
    \/ RunCatches

SpecRows == InitRows /\ [][NextRows]_vars

-----------------------------------------------------------------------------
(* Retrieval on bounded chunk lists.                                       *)

InitRetr ==
    /\ svc \in Services
    /\ queryEmbedding = <<>>
    /\ chunkList \in ChunkLists
    /\ kArg \in Ks
    /\ scored = <<>>
    /\ context = ""
    /\ kpc = "call"
    /\ RowsOff /\ ParseOff /\ EmbOff /\ GetOff
    /\ AppOff
    /\ ChunkerOff

NextRetr ==
    \/ Retrieve
    \/ QueryEmbeddingFails

SpecRetr == InitRetr /\ [][NextRetr]_vars

-----------------------------------------------------------------------------
(* Extraction on bounded responses.                                        *)

InitParse ==
    /\ svc \in Services
    /\ pcalls = 0
    /\ pcause = NULL
    /\ raw = <<>>
    /\ specsOut = <<>>
    /\ perr = NULL
    /\ ppc = "start"
    /\ RowsOff /\ RetrOff /\ EmbOff /\ GetOff
    /\ AppOff
    /\ ChunkerOff

NextParse ==
    \/ CallModel
    \/ ResponseArrives
    \/ CallFails

SpecParse == InitParse /\ [][NextParse]_vars

-----------------------------------------------------------------------------
(* Batch embedding on bounded lists of texts.                              *)

InitEmb ==
    /\ svc \in Services
    /\ texts \in TextLists
    /\ data = <<>>
    /\ vectors = <<>>
    /\ eerr = NULL
    /\ epc = "call"
    /\ requests = <<>>
    /\ RowsOff /\ RetrOff /\ ParseOff /\ GetOff
    /\ AppOff
    /\ ChunkerOff

NextEmb ==
    \/ GroqBatchEmbeddings
    \/ OpenAIBatchEmbeddings
    \/ OpenAIBatchNoData
    \/ OpenAIBatchFails

SpecEmb == InitEmb /\ [][NextEmb]_vars

-----------------------------------------------------------------------------
(* getEmbedding of the hosted provider on bounded texts.                   *)

InitGet ==
    /\ svc = "openai"
    /\ gtext \in BatchTexts
    /\ gcause = NULL
    /\ gvec = <<>>
    /\ gerr = NULL
    /\ gpc = "single"
    /\ texts = <<>>
    /\ data = <<>>
    /\ vectors = <<>>
    /\ eerr = NULL
    /\ epc = "off"
    /\ requests = <<>>
    /\ RowsOff /\ RetrOff /\ ParseOff
    /\ AppOff
    /\ ChunkerOff

NextGet ==
    \/ SingleEmbedding
    \/ SingleFails
    \/ OpenAIBatchEmbeddings
    \/ OpenAIBatchNoData
    \/ OpenAIBatchFails
    \/ BatchReturns
    \/ BatchThrows

SpecGet == InitGet /\ [][NextGet]_vars

-----------------------------------------------------------------------------
(* Properties of the orchestrator (specification Spec).                    *)

StatusAt(k) == steps[StepIds[k]].status

Executing(r) == runs[r].pc \in Stages

\* The step in which run r leaves a stage through its catch block.
FailsNow(r) == runs[r].pc \in Stages /\ runs'[r].pc = "failed"

\* C1: in every reachable state the four steps, in pipeline order, read zero or
\* more 'completed', then at most one 'loading' or 'error', then only 'idle'.
C1_StepsFollowPipelineOrder ==
    \E c \in 0..4 :
        /\ \A k \in 1..c : StatusAt(k) = "completed"
        /\ \A k \in (c + 1)..4 :
              IF k = c + 1 THEN StatusAt(k) \in {"loading", "error", "idle"}
              ELSE StatusAt(k) = "idle"

\* C2 as claimed: when a stage of a run fails, the run ends as failed, it never
\* starts a later stage, and the error text shown is the message of the error
\* the stage threw.
C2_ErrorSurfacedUnmodified ==
    [][\A r \in DOMAIN runs :
          /\ FailsNow(r) =>
                /\ error' = runs'[r].err
                /\ ~isProcessing'
          /\ runs[r].pc = "failed" => runs'[r].pc = "failed"]_vars

\* C2 as amended: ... and the error text shown is the message of the error the
\* stage threw, or the application's fixed fallback text when that message is empty.
C2_ErrorSurfacedOrFallback ==
    [][\A r \in DOMAIN runs :
          /\ FailsNow(r) =>
                /\ runs'[r].err # "" => error' = runs'[r].err
                /\ runs'[r].err = "" =>
                      error' \in {"Pipeline failed.", "Pipeline execution failed."}
                /\ error' # NULL
                /\ ~isProcessing'
          /\ runs[r].pc = "failed" => runs'[r].pc = "failed"]_vars

\* C2 witness: a run failed in its last stage, after three stages had completed,
\* and the message of its error is the error text shown.
C2_Witness ==
    \E r \in DOMAIN runs :
        /\ runs[r].pc = "failed"
        /\ runs[r].at = "parse"
        /\ runs[r].err # ""
        /\ error = runs[r].err

\* C3: when a stage fails, the step marked 'error' is the stage that failed and
\* no other step changes to 'error'; once no run is executing any more, no step
\* is left 'loading'.
C3_FailedStageIsMarked ==
    [][\A r \in DOMAIN runs :
          FailsNow(r) =>
             /\ steps'[runs[r].pc].status = "error"
             /\ \A id \in DOMAIN steps :
                   (id # runs[r].pc /\ steps'[id].status = "error")
                       => steps[id].status = "error"
             /\ (\A r2 \in DOMAIN runs' : runs'[r2].pc \notin Stages)
                   => \A id \in DOMAIN steps : steps'[id].status # "loading"]_vars

\* C4: runs never overlap, and isProcessing is true exactly while a run executes.
C4_RunsNeverOverlap ==
    /\ Cardinality({r \in DOMAIN runs : Executing(r)}) <= 1
    /\ isProcessing <=> (\E r \in DOMAIN runs : Executing(r))

-----------------------------------------------------------------------------
(* Properties of the chunker (specification SpecChunker).                  *)

InSelected(c) == \E j \in 1..Len(selected) : selected[j] = c

SpecIndices == {k \in 1..Len(allChunks) : allChunks[k].isSpecPriority}
GeneralIndices == {k \in 1..Len(allChunks) : ~allChunks[k].isSpecPriority}

\* C5: for every list of pages and every budget >= 0 the chunker returns at most
\* `budget` chunks.
C5_AtMostBudgetChunks ==
    cpc = "done" => Len(selected) <= maxChunks

\* C5 witness: more chunks were generated than the budget allows, and the
\* budget is used in full.
C5_Witness ==
    /\ cpc = "done"
    /\ maxChunks > 0
    /\ Len(allChunks) > maxChunks
    /\ Len(selected) = maxChunks

\* C6: when the spec-priority chunks number at most the budget, every one of
\* them is in the output, wherever in the document it occurs.
C6_SpecPriorityComplete ==
    (cpc = "done" /\ Cardinality(SpecIndices) <= maxChunks)
        => \A k \in SpecIndices : InSelected(allChunks[k])

\* C6 witness: a spec-priority chunk generated after more general chunks than
\* the budget holds is in the output, and a general chunk before it is not.
C6_Witness ==
    /\ cpc = "done"
    /\ Cardinality(SpecIndices) <= maxChunks
    /\ \E k \in SpecIndices :
          /\ k > maxChunks
          /\ InSelected(allChunks[k])
          /\ \E g \in GeneralIndices : g < k /\ ~InSelected(allChunks[g])

\* C7: for every input and every budget of at least one chunk, also when the
\* spec-priority chunks alone exceed the budget, every spec-priority chunk is in
\* the output.
C7_SpecPriorityNeverDropped ==
    (cpc = "done" /\ maxChunks >= 1)
        => \A k \in SpecIndices : InSelected(allChunks[k])

\* The j-th index (from 1) of `idx`, a set of indices of allChunks.
NthOf(idx, j) == CHOOSE k \in idx : Cardinality({i \in idx : i <= k}) = j

\* The reference selection: the spec-priority chunks in generation order, then
\* the first max(0, budget - |spec-priority|) general chunks in generation
\* order, the whole cut to the budget.
ReferenceSelection ==
    LET ns == Cardinality(SpecIndices)
        ng == Min(Cardinality(GeneralIndices), Max(0, maxChunks - ns))
        n  == Min(maxChunks, ns + ng)
    IN  [j \in 1..n |->
            IF j <= ns THEN allChunks[NthOf(SpecIndices, j)]
            ELSE allChunks[NthOf(GeneralIndices, j - ns)]]

\* C8: the output is the reference selection; no general chunk precedes a
\* spec-priority chunk, and none is output when the spec-priority chunks reach
\* the budget.
C8_OutputIsReferenceSelection ==
    cpc = "done" =>
        /\ selected = ReferenceSelection
        /\ \A i, j \in 1..Len(selected) :
              (i < j /\ selected[j].isSpecPriority) => selected[i].isSpecPriority
        /\ Cardinality(SpecIndices) >= maxChunks
              => \A j \in 1..Len(selected) : selected[j].isSpecPriority

\* C8 witness: the output holds spec-priority chunks followed by some but not
\* all of the general chunks, while a general chunk was generated first.
C8_Witness ==
    /\ cpc = "done"
    /\ Len(selected) >= 2
    /\ selected[1].isSpecPriority
    /\ ~selected[Len(selected)].isSpecPriority
    /\ 1 \in GeneralIndices
    /\ \E g \in GeneralIndices : ~InSelected(allChunks[g])

\* The pages among 1..p whose text holds a section header.
HeaderPagesUpTo(p) ==
    {q \in 1..p : \E k \in 1..Len(pages[q].content) : IsSectionHeader(pages[q].content[k])}

LastOf(S) == CHOOSE x \in S : \A y \in S : y <= x

\* The index of the last header line of a page's text.
LastHeaderIndex(content) ==
    LastOf({k \in 1..Len(content) : IsSectionHeader(content[k])})

\* C9 as claimed: every chunk of page p carries the section of the most recently
\* seen header in pages 1..p in reading order, 'GENERAL INFORMATION' if there is none.
C9_SectionIsLatestHeader ==
    \A k \in 1..Len(allChunks) :
        LET p == allChunks[k].page
            H == HeaderPagesUpTo(p)
        IN  allChunks[k].section =
                IF H = {} THEN "GENERAL INFORMATION"
                ELSE SectionLabel(pages[LastOf(H)].content,
                                  LastHeaderIndex(pages[LastOf(H)].content))

\* C9 as amended: every chunk of page p carries the section of the first header
\* of the last page among 1..p that holds a header, 'GENERAL INFORMATION' if
\* there is none.
C9_SectionIsFirstHeaderOfLatestHeaderPage ==
    \A k \in 1..Len(allChunks) :
        LET p == allChunks[k].page
            H == HeaderPagesUpTo(p)
        IN  allChunks[k].section =
                IF H = {} THEN "GENERAL INFORMATION"
                ELSE SectionLabel(pages[LastOf(H)].content,
                                  FirstHeaderIndex(pages[LastOf(H)].content))

\* C9 witness: a chunk of page 3 carries the section of page 1, pages 2 and 3
\* holding no header.
C9_Witness ==
    \E k \in 1..Len(allChunks) :
        /\ allChunks[k].page = 3
        /\ HeaderPagesUpTo(3) = {1}
        /\ allChunks[k].section # "GENERAL INFORMATION"

\* C10: no two chunks the chunker generates or returns have the same id.
C10_ChunkIdsUnique ==
    /\ \A i, j \in 1..Len(allChunks) : i # j => allChunks[i].id # allChunks[j].id
    /\ \A i, j \in 1..Len(selected) : i # j => selected[i].id # selected[j].id

\* C10 witness: the output holds two chunks of one page.
C10_Witness ==
    /\ cpc = "done"
    /\ \E i, j \in 1..Len(selected) : i # j /\ selected[i].page = selected[j].page


-----------------------------------------------------------------------------
(* Properties of the layout reconstructor (specification SpecRows).        *)

\* the arrival orders of the items of the last page read
Rearrangements(its) ==
    { [i \in 1..Len(its) |-> its[p[i]]] :
        p \in { q \in [1..Len(its) -> 1..Len(its)] :
                  \A i, j \in 1..Len(its) : i # j => q[i] # q[j] } }

\* no item is within the tolerance of more than one row
RowsSeparated(its) ==
    LET lm == GroupItems(its)
    IN  \A i \in 1..Len(its) :
            Cardinality({k \in 1..Len(lm) :
                            Abs(lm[k].key - Round(its[i].y)) < ROW_DELTA}) <= 1

\* no two items of a row have the same horizontal coordinate
NoSharedX(its) ==
    LET lm == GroupItems(its)
    IN  \A k \in 1..Len(lm) : \A i, j \in 1..Len(lm[k].row) :
            i # j => lm[k].row[i].x # lm[k].row[j].x

\* C11: for every page, the lines of the page text are in strictly
\* descending order of the row coordinate, the items of a line are in
\* non-decreasing horizontal order, every item with text is in exactly one
\* line, and the page text is the lines (items joined by a double space)
\* joined by newlines.
C11_LinesTopDownLeftRight ==
    pageNo >= 1 =>
        /\ \A i, j \in 1..Len(emitted) : i < j => emitted[i].key > emitted[j].key
        /\ \A k \in 1..Len(emitted) : \A i, j \in 1..Len(emitted[k].row) :
               i < j => emitted[k].row[i].x <= emitted[k].row[j].x
        /\ \A n \in 1..Len(items) :
               IsVisible(items[n]) =>
                   Cardinality({ <<k, i>> \in (1..Len(emitted)) \X (1..Len(items)) :
                                    /\ i <= Len(emitted[k].row)
                                    /\ emitted[k].row[i] = items[n] }) = 1
        /\ outPages[pageNo].num = pageNo
        /\ outPages[pageNo].content = PageText(emitted)

\* C11 witness: a page whose rows arrived bottom row first and whose text
\* has two lines, one of them with two items.
C11_Witness ==
    /\ pageNo >= 1
    /\ Len(lineMap) >= 2
    /\ lineMap[1].key < lineMap[2].key
    /\ Len(emitted) >= 2
    /\ \E k \in 1..Len(emitted) : Len(emitted[k].row) >= 2
    /\ outPages[pageNo].content = "258\n350  Nm"

-----------------------------------------------------------------------------
(* Properties of retrieval (specification SpecRetr).                       *)

\* the positions of the chunks that have an embedding
EmbeddedIds == {i \in 1..Len(chunkList) : chunkList[i].embedded /\ chunkList[i].embedding # <<>>}

\* the positions of the chunks returned
ReturnedIds == {scored[i].chunk.id : i \in 1..Len(scored)}

\* the similarity of the i-th chunk to the query
Similarity(i) == cosineSimilarity(queryEmbedding, chunkList[i].embedding)

SameScore(s, t) == ~ScoreLess(s, t) /\ ~ScoreLess(t, s)

\* C13: retrieveRelevantChunks returns min(k, number of embedded chunks)
\* scored chunks, each an embedded chunk of the list with its similarity;
\* every returned chunk scores at least as high as every embedded chunk not
\* returned; the list is in non-increasing score order; chunks of equal
\* score keep their order in the chunk list, also across the cut-off.
C13_TopKStableDescending ==
    kpc = "done" =>
        /\ Len(scored) = Min(kArg, Cardinality(EmbeddedIds))
        /\ Cardinality(ReturnedIds) = Len(scored)
        /\ \A i \in 1..Len(scored) :
               /\ scored[i].chunk.id \in EmbeddedIds
               /\ scored[i].chunk = chunkList[scored[i].chunk.id]
               /\ scored[i].score = Similarity(scored[i].chunk.id)
        /\ \A i \in ReturnedIds : \A j \in EmbeddedIds \ ReturnedIds :
               /\ ~ScoreLess(Similarity(i), Similarity(j))
               /\ SameScore(Similarity(i), Similarity(j)) => i < j
        /\ \A i, j \in 1..Len(scored) :
               i < j => /\ ~ScoreLess(scored[i].score, scored[j].score)
                        /\ SameScore(scored[i].score, scored[j].score)
                               => scored[i].chunk.id < scored[j].chunk.id

\* C13 witness: a call that cut the list between two chunks of equal score
\* and returned two chunks of different scores that were listed lowest first.
C13_Witness ==
    /\ kpc = "done"
    /\ kArg = 2 /\ Len(scored) = 2
    /\ ScoreLess(scored[2].score, scored[1].score)
    /\ scored[1].chunk.id > scored[2].chunk.id
    /\ \E j \in EmbeddedIds \ ReturnedIds : SameScore(Similarity(j), scored[2].score)

\* the texts of the chunks at the positions sel, joined as the context is
ContextOfIds(sel) == JoinWith([i \in 1..Len(sel) |-> chunkList[sel[i]].text], "\n---\n")

\* C14: a chunk without an embedding (missing or empty vector) is in neither
\* the scored result nor the context string, also when fewer than k chunks
\* have an embedding: the result is then the embedded chunks only.
C14_UnembeddedExcluded ==
    kpc = "done" =>
        /\ \A i \in 1..Len(chunkList) :
               (~chunkList[i].embedded \/ chunkList[i].embedding = <<>>) =>
                   \A j \in 1..Len(scored) : scored[j].chunk.id # i
        /\ \E sel \in [1..Len(scored) -> EmbeddedIds] : context = ContextOfIds(sel)
        /\ Cardinality(EmbeddedIds) < kArg => ReturnedIds = EmbeddedIds

\* C14 witness: a call with k above the number of embedded chunks, on a list
\* with a chunk of undefined embedding and a chunk of empty embedding.
C14_Witness ==
    /\ kpc = "done"
    /\ Len(scored) >= 1
    /\ Len(scored) < kArg
    /\ \E i \in 1..Len(chunkList) : ~chunkList[i].embedded
    /\ \E i \in 1..Len(chunkList) : chunkList[i].embedded /\ chunkList[i].embedding = <<>>

-----------------------------------------------------------------------------
(* Properties of extraction (specification SpecParse).                     *)

\* the response arrived (the call did not reject) and the method has ended
Answered == ppc \in {"done", "failed"} /\ pcause = NULL

\* t is the text of a JSON array
IsArrayText(t) == JSONParse(t).ok /\ JSONParse(t).val.type = "array"

\* some part of the text is the text of a JSON array
ContainsArray(t) ==
    \E i, j \in 1..Len(t) : i <= j /\ IsArrayText(SubSeq(t, i, j))

\* C15: whatever the content of the response (empty, prose, malformed JSON,
\* JSON that is not an array) extractSpecs returns a list and throws nothing;
\* the list is empty when the content is empty, when it is JSON but not an
\* array, and when no part of it is a JSON array.
C15_AnyResponseGivesAList ==
    Answered =>
        /\ ppc = "done"
        /\ perr = NULL
        /\ specsOut \in Seq({specsOut[i] : i \in 1..Len(specsOut)})
        /\ raw = <<>> => specsOut = <<>>
        /\ (JSONParse(raw).ok /\ JSONParse(raw).val.type # "array") => specsOut = <<>>
        /\ ~ContainsArray(raw) => specsOut = <<>>

\* C15 witness: a response of malformed JSON, answered with the empty list.
C15_Witness ==
    /\ ppc = "done"
    /\ raw = <<"[", "R", ",", "]">>
    /\ specsOut = <<>>

\* the words of prose
IsProse(t) == \A i \in 1..Len(t) : t[i] = "P"

\* C16 as stated: a JSON array in a code fence, or with prose before it or
\* around it, is returned as it is; and when the direct parse fails, the
\* array returned is the first balanced [...] of the response.
C16_RecoversWrappedArray ==
    ppc = "done" =>
        /\ \A i, j \in 1..Len(raw) :
               (/\ i <= j
                /\ IsArrayText(SubSeq(raw, i, j))
                /\ \/ /\ i = 2 /\ j = Len(raw) - 1
                      /\ raw[1] = "FENCE" /\ raw[Len(raw)] = "FENCE"
                   \/ /\ IsProse(SubSeq(raw, 1, i - 1))
                      /\ IsProse(SubSeq(raw, j + 1, Len(raw))))
               => specsOut = JSONParse(SubSeq(raw, i, j)).val.elems
        /\ (/\ ~JSONParse(raw).ok
            /\ FirstBalanced(raw).found
            /\ IsArrayText(FirstBalanced(raw).text))
               => specsOut = JSONParse(FirstBalanced(raw).text).val.elems

\* C17 as stated: no record of the returned list has a confidence below 0.5.
C17_ConfidenceFloor ==
    ppc = "done" =>
        \A i \in 1..Len(specsOut) :
            "confidence" \in DOMAIN specsOut[i] => specsOut[i].confidence >= 50

\* the eight values of spec_type
SpecTypes == {"Torque", "Fluid Capacity", "Pressure", "Clearance", "Gap",
              "Part Number", "Temperature", "Voltage"}

\* v has the shape of a specification record
Conforms(v) ==
    /\ {"component", "spec_type", "value", "unit", "confidence"} \subseteq DOMAIN v
    /\ v.type = "object"
    /\ v.spec_type \in SpecTypes
    /\ v.confidence \in 0..100

\* C18 as stated: every element of the returned list has the shape of a
\* specification record.
C18_RecordsConform ==
    ppc = "done" => \A i \in 1..Len(specsOut) : Conforms(specsOut[i])

\* what the rejection of the call was about
CauseKind(c) ==
    CASE c = "401 Unauthorized"      -> "authentication"
      [] c = "429 Too Many Requests" -> "rate limit"
      [] OTHER                       -> "other"

\* C19 as stated: in both services a rejected call is surfaced, after one
\* call and no retry, as the extraction error wrapping the cause when the
\* cause is neither authentication nor rate limiting, and otherwise as an
\* error that is not that wrapping and that causes of another kind do not
\* give.
C19_ThreeDistinguishableErrors ==
    (ppc = "failed" /\ pcause # NULL) =>
        /\ pcalls = 1
        /\ CauseKind(pcause) = "other" => perr = "LLM extraction failed: " \o pcause
        /\ CauseKind(pcause) # "other" => perr # "LLM extraction failed: " \o pcause
        /\ \A c \in LlmCauses :
               CauseKind(c) # CauseKind(pcause) => ExtractionErrorOf(svc, c) # perr

-----------------------------------------------------------------------------
(* Properties of batch embedding (specification SpecEmb).                  *)

\* the embedding of a text by the provider of service s
EmbeddingBy(s, text) ==
    IF s = "groq" THEN getEmbedding(text) ELSE RemoteEmbedding(text)

\* C20: with both providers getBatchEmbeddings returns one vector per text,
\* the i-th vector being the embedding of the i-th text, also when the
\* remote response lists its items in another order.
C20_BatchKeepsInputOrder ==
    epc = "done" =>
        /\ Len(vectors) = Len(texts)
        /\ \A i \in 1..Len(texts) : vectors[i] = EmbeddingBy(svc, texts[i])

\* C20 witness: a remote response that lists the item of the second text
\* before the item of the first, for texts of different embeddings.
C20_Witness ==
    /\ epc = "done"
    /\ svc = "openai"
    /\ Len(texts) >= 2
    /\ texts[1] # texts[2]
    /\ data[1].index > data[2].index
    /\ vectors[1] # vectors[2]


-----------------------------------------------------------------------------
(* Properties of getEmbedding (specification SpecGet).                     *)

\* C21: for the hosted provider, when the single-item request of getEmbedding
\* fails, exactly one batch-of-one request follows it: when that succeeds its
\* vector is returned, when it fails its error is thrown to the caller; and
\* no call of getEmbedding issues more than two remote requests.
C21_OneBatchOfOneFallback ==
    /\ Len(requests) <= 2
    /\ gpc = "done" /\ gcause = NULL =>
          /\ requests = <<gtext>>
          /\ gvec = <<RemoteEmbedding(gtext)>>
    /\ gpc \in {"done", "failed"} /\ gcause # NULL =>
          /\ requests = <<gtext, <<gtext>>>>
          /\ gpc = "done" => epc = "done" /\ gvec = <<vectors[1]>> /\ gerr = NULL
          /\ gpc = "failed" => epc = "failed" /\ gerr = eerr /\ gerr # NULL /\ gvec = <<>>

\* C21 witness: the single request failed, and the batch of one failed too:
\* its error is the error of the call, after two requests.
C21_Witness ==
    /\ gpc = "failed"
    /\ gcause = "429 Too Many Requests"
    /\ gerr = "Invalid or missing OpenAI API key. Check your .env.local file."
    /\ Len(requests) = 2


-----------------------------------------------------------------------------
(* Properties of a failed reconstruction (specification SpecRows).         *)

\* the fixed texts extractTextWithStructure may put around the cause
FixedTexts ==
    {"", "PDF.js failed to open the file: ",
     ". Make sure the file is a valid, non-encrypted PDF."}

\* the message carries the text of the cause
Carries(msg, cause) == \E pre, suf \in FixedTexts : msg = pre \o cause \o suf

\* C22: when the document cannot be opened or a page cannot be read,
\* extractTextWithStructure throws an error whose message carries the message
\* of the cause and returns nothing, whatever pages it had read; the run that
\* awaited it ends failed in the extract stage, with no chunks and with the
\* embed, retrieve and parse steps never started.
C22_OpenFailureAbortsRun ==
    xpc = "failed" =>
        /\ xcause # NULL
        /\ Carries(xerr, xcause)
        /\ xret = <<>>
        /\ \A r \in DOMAIN runs :
              /\ runs[r].pc \in {"extract", "failed"}
              /\ runs[r].n = 0
              /\ runs[r].pc = "failed" =>
                    /\ runs[r].at = "extract"
                    /\ runs[r].err = xerr
                    /\ error # NULL
                    /\ ~isProcessing
                    /\ steps["extract"].status = "error"
        /\ \A id \in {"embed", "retrieve", "parse"} : steps[id].status = "idle"
        /\ results = <<>>

\* C22 witness: the second page of a document could not be read after the
\* first had been reconstructed; nothing was returned and the run has failed.
C22_Witness ==
    /\ xpc = "failed"
    /\ Len(outPages) = 1
    /\ outPages[1].content # ""
    /\ xcause = "Invalid PDF structure"
    /\ xret = <<>>
    /\ \E r \in DOMAIN runs : runs[r].pc = "failed" /\ error = xerr


-----------------------------------------------------------------------------
(* Properties of the row grouping (specification SpecRows).                *)

\* the position at which a fragment of the page arrived
ArrivalOf(it) == CHOOSE p \in 1..Len(items) : items[p] = it

\* the row of the Map a fragment of the page was placed in
RowOf(it) ==
    CHOOSE k \in 1..Len(lineMap) :
        \E j \in 1..Len(lineMap[k].row) : lineMap[k].row[j] = it

\* the distance of the rounded vertical coordinates of two fragments
Apart(a, b) == Abs(Round(a.y) - Round(b.y))

Candidates(p) ==
    {k \in 1..Len(lineMap) :
        /\ lineMap[k].row # <<>>
        /\ ArrivalOf(lineMap[k].row[1]) < p
        /\ Abs(lineMap[k].key - Round(items[p].y)) < ROW_DELTA}

\* C24: a fragment that arrives within the tolerance of more than one existing
\* row representative joins the row created first, whether or not another
\* candidate's representative is nearer.
C24_FirstMatchNotNearest ==
    \A p \in 1..Len(items) :
        Cardinality(Candidates(p)) > 1 =>
            \A k \in Candidates(p) : RowOf(items[p]) <= k

\* C24 witness: a fragment had two candidate rows, the later one nearer, and
\* is in the earlier one.
C24_Witness ==
    \E p \in 1..Len(items) :
        \E k1, k2 \in Candidates(p) :
            /\ k1 < k2
            /\ Abs(lineMap[k2].key - Round(items[p].y)) < Abs(lineMap[k1].key - Round(items[p].y))
            /\ RowOf(items[p]) = k1


-----------------------------------------------------------------------------
(* Properties of the embedding loop and of the progress steps              *)
(* (specification Spec).                                                   *)

\* every chunk of the run holds the embedding of its own text, assigned once
AllEmbedded(run) ==
    /\ Len(run.emb) = run.n
    /\ \A j \in 1..run.n : run.emb[j] = j /\ run.writes[j] = 1

\* the chunks before position i hold their embedding, the others none
EmbeddedUpTo(run) ==
    /\ Len(run.emb) = run.n
    /\ \A j \in 1..run.n :
          IF j <= run.i THEN run.emb[j] = j /\ run.writes[j] = 1
          ELSE run.emb[j] = 0 /\ run.writes[j] = 0

\* C25: when a run marks the embed step completed, every chunk of the run has
\* its embedding; during the run each chunk's embedding is assigned once, with
\* the embedding of the chunk's own text, batch after batch in order; and the
\* run awaits retrieval or extraction only with every chunk embedded.
C25_EveryChunkEmbeddedOnce ==
    [][/\ \A r \in DOMAIN runs' :
            /\ runs'[r].pc = "embed" => EmbeddedUpTo(runs'[r])
            /\ runs'[r].pc \in {"retrieve", "parse"} => AllEmbedded(runs'[r])
       /\ \A r \in DOMAIN runs :
            (runs[r].pc \in {"extract", "embed"} /\ runs'[r].pc = "retrieve") =>
                /\ steps'["embed"].status = "completed"
                /\ AllEmbedded(runs'[r])
       /\ (steps["embed"].status # "completed" /\ steps'["embed"].status = "completed") =>
            \E r \in DOMAIN runs :
                /\ runs[r].pc \in {"extract", "embed"}
                /\ runs'[r].pc = "retrieve"
                /\ AllEmbedded(runs'[r])]_vars

\* C25 witness: a run of two batches awaits retrieval, its last chunk embedded
\* by the second batch.
C25_Witness ==
    \E r \in DOMAIN runs :
        /\ runs[r].pc = "retrieve"
        /\ runs[r].n = BATCH + 1
        /\ runs[r].emb[BATCH + 1] = BATCH + 1
        /\ runs[r].writes[1] = 1
        /\ steps["embed"].status = "completed"


\* the four progress steps of the applications
ProgressSteps == {"extract", "embed", "retrieve", "parse"}

\* C26: every transition of a run is shown to the caller by a notification of
\* its own, the start and the completion of Chunking included: once a run has
\* got its chunks, a step that is none of extract, embed, retrieve and parse
\* reads 'completed'.
C26_ChunkingIsNotified ==
    \A r \in DOMAIN runs :
        runs[r].pc \in {"embed", "retrieve", "parse", "done"} =>
            \E id \in DOMAIN steps :
                id \notin ProgressSteps /\ steps[id].status = "completed"

\* the descriptions the run writes while it makes progress, and the initial one
ProgressTexts == {"initial", "Parsed", "Vectorizing", "vectors built", "Top", "Extracted"}

\* C27: after a stage fails, the description of the step marked 'error' names
\* the stage and includes the text of the cause: it is a text written by the
\* failure, none of the progress texts.
C27_FailedStepDescribesCause ==
    [][\A r \in DOMAIN runs :
          FailsNow(r) =>
              \E id \in DOMAIN steps :
                  /\ steps'[id].status = "error"
                  /\ steps'[id].description \notin ProgressTexts]_vars


-----------------------------------------------------------------------------
(* Termination of the runs (specification SpecLive).                       *)

\* run r returned, isProcessing is false, and the four steps read 'completed'
\* or an error message is set
EndedWell(r) ==
    /\ r \in DOMAIN runs
    /\ runs[r].pc \in {"done", "failed"}
    /\ ~isProcessing
    /\ \/ \A id \in DOMAIN steps : steps[id].status = "completed"
       \/ error # NULL

\* C28: when every external call eventually returns or fails, every run that
\* started eventually has returned in a state where isProcessing is false and
\* either the four steps are 'completed' (the results stored by the parse
\* stage) or an error message is set.
C28_EveryRunEnds ==
    \A r \in 1..MaxLiveRuns : (r \in DOMAIN runs) ~> EndedWell(r)

\* C28 witness: a run returned with results, the four steps completed and no
\* error.
C28_Witness ==
    \E r \in DOMAIN runs :
        /\ runs[r].pc = "done"
        /\ ~isProcessing
        /\ \A id \in DOMAIN steps : steps[id].status = "completed"
        /\ results # <<>>
        /\ error = NULL


-----------------------------------------------------------------------------
(* Properties of the stored results and of a rejected start                *)
(* (specification Spec).                                                   *)

\* C29: when a run ends in failure the stored result set is empty, so the
\* records of an earlier successful run are never shown with the error of a
\* later failed run; and the results change to a non-empty set only when the
\* extraction stage of a run returns.
C29_NoResultsAfterFailure ==
    [][/\ \A r \in DOMAIN runs : FailsNow(r) => results' = <<>>
       /\ (results' # results /\ results' # <<>>) =>
             \E r \in DOMAIN runs : runs[r].pc = "parse" /\ runs'[r].pc = "done"]_vars


\* a file is selected, the query is not blank and, in the Groq application,
\* both services were constructed
StartAllowed ==
    /\ file
    /\ Truthy(Trim(query))
    /\ app = "groq" => servicesOk

\* C30: a run starts only when a file is selected and the query is not blank
\* (and, in the Groq application, the services were constructed); a call of
\* runPipeline that is rejected starts no run and leaves steps, results,
\* retrieved chunks and isProcessing as they were: at most the error message
\* changes.
C30_RejectedStartChangesOnlyError ==
    [][/\ Len(runs') > Len(runs) => StartAllowed
       /\ ((ClickRun \/ PressEnter) /\ ~StartAllowed) =>
             UNCHANGED <<steps, results, retrievedChunks, isProcessing, runs,
                         file, query>>]_vars

\* C30 witness: a start was rejected in the Groq application with a file and
\* a query: no run exists and only the error message is set.
C30_Witness ==
    /\ app = "groq"
    /\ file /\ query = "torque"
    /\ error = "Services not initialized. Check console."
    /\ runs = <<>>
    /\ steps = INITIAL_STEPS
    /\ ~isProcessing

=============================================================================
